---------------------------- MODULE Spec2Model ----------------------------
(***************************************************************************)
(* Anomaly detection engine of the crypto monitor.                         *)
(*                                                                         *)
(*   monitor-anomaly/src/lib.rs       TimeSeriesWindow and the configs     *)
(*   monitor-anomaly/src/detector.rs  Volume/Price detectors, the manager  *)
(*   monitor-anomaly/src/analyzer.rs  MarketAnalyzer (flash crash, pump    *)
(*                                    and dump)                            *)
(*   examples/monitor_demo_improved.rs  SymbolMonitor                      *)
(*                                                                         *)
(* Numbers.  The code computes in f64.  Every sample of the model is an    *)
(* integer small enough that the sums, the sums of squares and their       *)
(* products are exactly representable, so the running sums are exact.  A   *)
(* quotient is kept as a fraction [n, d] with d > 0 and a square root by   *)
(* its square; every comparison the code makes on them is made by cross    *)
(* multiplication, which is the comparison of the exact real values.       *)
(***************************************************************************)
EXTENDS Integers, Sequences, FiniteSets, TLC

\* ----------------------------------------------------------------- bounds
\* Largest window capacity tried by the generic detector runs.
LoopMaxEvents == 5
TraderMaxEvents == 4
WsMaxEvents == 4
NotifierMaxCalls == 4
SystemMaxCalls == 2
StatMaxLen == 21
Demo1MaxTrades == 11
MaxSize == 3
\* Number of process_data calls in a generic detector run.
MaxPushes == 4
\* Number of analyze_market_data calls in a run with free prices.
FlashMaxTrades == 6
\* Number of analyze_market_data calls in a run with mostly flat prices,
\* and the number of prices of such a run that may be off the baseline.
PumpMaxTrades == 21
MaxSpikes == 2
\* Number of add_data_point calls in a run of the improved demo, and the
\* number of its inputs that may be off the baseline.
MonMaxTrades == 22
MonMaxSpikes == 1
\* Number of observations and resets in a run of a registry.
\* Trades of an analyzer run with prices of zero: the price manipulation
\* check needs ten prices and a volume history longer than that.
ZeroMaxTrades == 11
\* Market events the exchange streams of an engine run yield in total, and
\* trades the joined stream of a test_all_exchanges run yields.
EngineMaxEvents == 4
TestMaxEvents == 4
AppMaxEvents == 3
DemoMaxTrades == 3

\* ----------------------------------------------------------- arithmetic
Abs(x) == IF x < 0 THEN -x ELSE x
Max(a, b) == IF a >= b THEN a ELSE b
Min(a, b) == IF a <= b THEN a ELSE b

\* Option<T>: None is the empty sequence, Some(x) the one-element sequence.
None == << >>
Some(x) == << x >>
IsSome(o) == o # None
Unwrap(o) == o[1]

\* The f64 value NaN of a sample or of a running sum, and the arithmetic
\* of push, in which it propagates.
NaN == -1000000
IsNaN(x) == x = NaN
FAdd(a, b) == IF IsNaN(a) \/ IsNaN(b) THEN NaN ELSE a + b
FSub(a, b) == IF IsNaN(a) \/ IsNaN(b) THEN NaN ELSE a - b
FMul(a, b) == IF IsNaN(a) \/ IsNaN(b) THEN NaN ELSE a * b

\* A quotient n/d of two numbers, d >= 0.  As in f64 arithmetic n/0 is an
\* infinity when n # 0, and 0/0 is NaN.
Frac(n, d) == [n |-> n, d |-> d]
FracZero == Frac(0, 1)
FracNaN == Frac(0, 0)
\* |n/d| >= t and |n/d| > t for an integer t: true of an infinity, false
\* of NaN.
FracAbsGE(f, t) == IF f.d = 0 THEN f.n # 0 ELSE Abs(f.n) >= t * f.d
FracAbsGT(f, t) == IF f.d = 0 THEN f.n # 0 ELSE Abs(f.n) > t * f.d

\* A z-score num / sqrt(den_sq), den_sq > 0.
ZZero == [num |-> 0, den_sq |-> 1]
\* |z| >= t for an integer t >= 0.
ZAbsGE(z, t) == z.num * z.num >= t * t * z.den_sq

RECURSIVE SumSeq(_)
SumSeq(s) == IF s = << >> THEN 0 ELSE Head(s) + SumSeq(Tail(s))

Values(s) == [i \in 1..Len(s) |-> s[i].value]

\* The last k elements of s (all of s when it is shorter).
LastK(s, k) == IF Len(s) <= k THEN s ELSE SubSeq(s, Len(s) - k + 1, Len(s))

\* ------------------------------------------------------ TimeSeriesWindow
TimeSeriesData(ts, v) == [timestamp |-> ts, value |-> v]

TimeSeriesWindow_new(max_size) ==
    [data |-> << >>, max_size |-> max_size, sum |-> 0, sum_squared |-> 0]

\* push with the square of the evicted sample left in sum_squared.
TimeSeriesWindow_push_keeps_square(w, point) ==
    LET evict == Len(w.data) >= w.max_size /\ w.data # << >>
        old   == Head(w.data)
        data1 == IF evict THEN Tail(w.data) ELSE w.data
        sum1  == IF evict THEN FSub(w.sum, old.value) ELSE w.sum
    IN  [w EXCEPT !.data = Append(data1, point),
                  !.sum = FAdd(sum1, point.value),
                  !.sum_squared = FAdd(w.sum_squared,
                                       FMul(point.value, point.value))]

\* push: evict the oldest sample of a full window, subtracting it from the
\* running sums, then add the new one.
TimeSeriesWindow_push(w, point) ==
    LET evict == Len(w.data) >= w.max_size /\ w.data # << >>
        old   == Head(w.data)
        data1 == IF evict THEN Tail(w.data) ELSE w.data
        sum1  == IF evict THEN FSub(w.sum, old.value) ELSE w.sum
        sq1   == IF evict
                 THEN FSub(w.sum_squared, FMul(old.value, old.value))
                 ELSE w.sum_squared
    IN  [w EXCEPT !.data = Append(data1, point),
                  !.sum = FAdd(sum1, point.value),
                  !.sum_squared = FAdd(sq1, FMul(point.value, point.value))]

TimeSeriesWindow_len(w) == Len(w.data)

\* mean = sum / len, 0.0 when empty.
TimeSeriesWindow_mean(w) ==
    IF w.data = << >> THEN FracZero
    ELSE IF IsNaN(w.sum) THEN FracNaN
    ELSE Frac(w.sum, Len(w.data))

\* The square of std_dev(): 0 below two samples, otherwise
\* max(0, sum_squared/len - mean^2) = max(0, len*sum_squared - sum^2) / len^2.
\* A NaN variance gives 0.0, since f64::max returns its other argument.
TimeSeriesWindow_std_dev(w) ==
    IF Len(w.data) < 2 THEN FracZero
    ELSE IF IsNaN(w.sum) \/ IsNaN(w.sum_squared) THEN FracZero
    ELSE Frac(Max(0, Len(w.data) * w.sum_squared - w.sum * w.sum),
              Len(w.data) * Len(w.data))

\* z_score(value) = (value - mean) / std_dev, 0.0 when std_dev == 0.0;
\* written over the common denominator len:
\* (len*value - sum) / sqrt(len*sum_squared - sum^2).
TimeSeriesWindow_z_score(w, value) ==
    IF TimeSeriesWindow_std_dev(w).n = 0 THEN ZZero
    ELSE [num |-> Len(w.data) * value - w.sum,
          den_sq |-> TimeSeriesWindow_std_dev(w).n]

\* -------------------------------------------------------------- configs
VolumeAnomalyConfig(z, p, w, m) ==
    [z_score_threshold |-> z, min_percentage_change |-> p,
     window_size |-> w, min_samples |-> m]

PriceAnomalyConfig(p, z, w, m) ==
    [percentage_threshold |-> p, z_score_threshold |-> z,
     window_size |-> w, min_samples |-> m]

VolumeAnomalyConfig_default == VolumeAnomalyConfig(3, 200, 60, 30)
PriceAnomalyConfig_default == PriceAnomalyConfig(5, 3, 60, 30)

\* ---------------------------------------------------------------- state
VARIABLES
    program,        \* which binary / component of the repository is running
    volume_config,  \* AnomalyDetectorManager.volume_config
    price_config,   \* AnomalyDetectorManager.price_config
    vol_window,     \* VolumeAnomalyDetector.window
    price_window,   \* PriceAnomalyDetector.window
    det_last_price, \* PriceAnomalyDetector.last_price : Option<f64>
    fed,            \* every TimeSeriesData passed to process_data, in order
    vol_result,     \* what VolumeAnomalyDetector::detect returned last
    price_result,   \* what PriceAnomalyDetector::detect returned last
    emitted,        \* every anomaly returned by process_data, in order
    price_history,  \* MarketAnalyzer.price_history
    volume_history, \* MarketAnalyzer.volume_history
    metrics,        \* MarketAnalyzer.metrics.windows, by key
    an_result,      \* what the four checks of analyze_market_data returned
    an_fired,       \* number of analyze_market_data calls in which
                    \* check_pump_dump returned Some
    mon_config,     \* the MonitorConfig of the improved demo
    monitor,        \* the SymbolMonitor of the one symbol of the model
    now,            \* the monotonic clock (Instant), in ms
    mon_alert,      \* what SymbolMonitor::add_data_point returned last
    mon_alert_times,\* the clock at every call that returned an alert
    spikes,         \* number of inputs so far that were off the baseline
    detectors,      \* AnomalyDetectorManager.detectors, by key
    handle,         \* the detector get_or_create_detector returned last
    monitors,       \* MonitoringSystem.monitors, by key
    observed,       \* every event handed to a registry, with the key used
    produced,       \* number of events each exchange stream has yielded
    event_queue,    \* the channel between event_tx and event_rx
    in_flight,      \* the event process_event is sending to the bus
    bus_log,        \* every event process_event is done with, and how
    tasks,          \* the spawned tasks of MonitorEngine, running or not
    spawned,        \* test_all_exchanges: spawned tasks that have not run
    stats,          \* test_all_exchanges: the ExchangeStats of the key
    cluster_topics, \* the topics that exist on the Fluvio cluster
    producers,      \* MonitorEngine.producers, by topic
    start_state,    \* MonitorEngine::start: the topic initialize_topics is
                    \* at, the errors met and the Result returned
    supervisor,     \* the reconnecting stream of the demo: its state, what
                    \* it has yielded and not been polled for, its history
    main_loop,      \* the demo's main loop: running or not, and the events
                    \* its match has been handed
    error_tasks,    \* the handle_error tasks spawned and not yet run
    error_counters, \* MonitoringSystem.filtered_errors and .error_count
    handled,        \* the errors handle_error has been run on, in order
    stat_input,     \* the slice handed to Statistics::calculate
    stat_result,    \* what it returned, once called
    reset_at,       \* the number of samples fed when reset was last called
    twin,           \* a second monitor fed the trades of the first one
    trader,         \* the AutoTrader: its positions map and its tasks
    ws,             \* the API state and the tasks of a WebSocket client
    notifier,       \* the NotificationManager and the tasks that use it
    msys            \* the MonitoringSystem's mutexes and the tasks on them

detVars == << volume_config, price_config, vol_window, price_window,
              det_last_price, fed, vol_result, price_result, emitted >>

anVars == << price_history, volume_history, metrics, an_result, an_fired >>

monVars == << mon_config, monitor, now, mon_alert, mon_alert_times >>

regVars == << detectors, handle, monitors, observed >>

engVars == << produced, event_queue, in_flight, bus_log, tasks >>

testVars == << spawned, stats >>

startVars == << cluster_topics, producers, start_state >>

loopVars == << supervisor, main_loop, error_tasks, error_counters, handled >>

svcVars == << trader, ws, notifier, msys >>
auxVars == << stat_input, stat_result, reset_at, twin, svcVars >>

sysVars == << regVars, engVars, testVars, startVars, loopVars, auxVars >>

vars == << program, detVars, anVars, monVars, spikes, sysVars >>

\* -------------------------------------------------------------- severity
SeverityRank(s) ==
    CASE s = "Low" -> 0 [] s = "Medium" -> 1 [] s = "High" -> 2
      [] s = "Critical" -> 3

\* ------------------------------------------------- VolumeAnomalyDetector
\* The change as a ratio, the factor 100 left out.
Volume_percentage_change_ratio(w, value) ==
    IF w.data # << >> /\ ~IsNaN(w.sum) /\ w.sum > 0
    THEN Frac(Len(w.data) * value - w.sum, w.sum)
    ELSE FracZero

\* The percentage change of detect(): ((value - mean) / mean) * 100 when
\* mean > 0.0, else 0.0; over the common denominator len.
Volume_percentage_change(w, value) ==
    IF w.data # << >> /\ ~IsNaN(w.sum) /\ w.sum > 0
    THEN Frac((Len(w.data) * value - w.sum) * 100, w.sum)
    ELSE FracZero

Volume_severity(z) ==
    IF ZAbsGE(z, 5) THEN "Critical"
    ELSE IF ZAbsGE(z, 4) THEN "High"
    ELSE IF ZAbsGE(z, 3) THEN "Medium"
    ELSE "Low"

\* Firing on either condition alone.
Volume_fires_either(cfg, z, pct) ==
    ZAbsGE(z, cfg.z_score_threshold)
    \/ FracAbsGE(pct, cfg.min_percentage_change)

\* The fire condition of VolumeAnomalyDetector::detect.
Volume_fires(cfg, z, pct) ==
    ZAbsGE(z, cfg.z_score_threshold)
    /\ FracAbsGE(pct, cfg.min_percentage_change)

\* detect with the min_samples test one sample early.
VolumeAnomalyDetector_detect_early(cfg, w, data) ==
    LET w1  == TimeSeriesWindow_push(w, data)
        z   == TimeSeriesWindow_z_score(w1, data.value)
        pct == Volume_percentage_change(w1, data.value)
    IN  [window |-> w1,
         result |->
            IF TimeSeriesWindow_len(w1) + 1 < cfg.min_samples THEN None
            ELSE IF Volume_fires(cfg, z, pct)
            THEN Some([anomaly_type |-> "VolumeSpike",
                       timestamp |-> data.timestamp,
                       severity |-> Volume_severity(z),
                       current_value |-> data.value,
                       z_score |-> z,
                       percentage_change |-> pct])
            ELSE None]

\* detect(data) on a detector whose window is w: the window after the call
\* and the Option<AnomalyDetection> returned.
VolumeAnomalyDetector_detect(cfg, w, data) ==
    LET w1  == TimeSeriesWindow_push(w, data)
        z   == TimeSeriesWindow_z_score(w1, data.value)
        pct == Volume_percentage_change(w1, data.value)
    IN  [window |-> w1,
         result |->
            IF TimeSeriesWindow_len(w1) < cfg.min_samples THEN None
            ELSE IF Volume_fires(cfg, z, pct)
            THEN Some([anomaly_type |-> "VolumeSpike",
                       timestamp |-> data.timestamp,
                       severity |-> Volume_severity(z),
                       current_value |-> data.value,
                       z_score |-> z,
                       percentage_change |-> pct])
            ELSE None]

\* -------------------------------------------------- PriceAnomalyDetector
\* The change relative to the current price instead of the last one.
Price_percentage_change_of_current(last_price, current_price) ==
    IF IsSome(last_price) /\ ~IsNaN(Unwrap(last_price))
       /\ Unwrap(last_price) > 0
    THEN IF IsNaN(current_price) THEN FracNaN
         ELSE Frac((current_price - Unwrap(last_price)) * 100, current_price)
    ELSE FracZero

\* The tick-to-tick change of detect(): ((current - last) / last) * 100
\* when last_price is Some(last) with last > 0.0, else 0.0.
Price_percentage_change(last_price, current_price) ==
    IF IsSome(last_price) /\ ~IsNaN(Unwrap(last_price))
       /\ Unwrap(last_price) > 0
    THEN IF IsNaN(current_price) THEN FracNaN
         ELSE Frac((current_price - Unwrap(last_price)) * 100,
                   Unwrap(last_price))
    ELSE FracZero

Price_severity(pct, z) ==
    IF FracAbsGE(pct, 10) \/ ZAbsGE(z, 5) THEN "Critical"
    ELSE IF FracAbsGE(pct, 7) \/ ZAbsGE(z, 4) THEN "High"
    ELSE IF FracAbsGE(pct, 5) \/ ZAbsGE(z, 3) THEN "Medium"
    ELSE "Low"

\* The fire condition of PriceAnomalyDetector::detect.
Price_fires(cfg, pct, z) ==
    FracAbsGE(pct, cfg.percentage_threshold)
    \/ ZAbsGE(z, cfg.z_score_threshold)

\* detect that leaves last_price alone when it returns below min_samples.
PriceAnomalyDetector_detect_stale(cfg, w, last_price, data) ==
    LET w1  == TimeSeriesWindow_push(w, data)
        z   == TimeSeriesWindow_z_score(w1, data.value)
        pct == Price_percentage_change(last_price, data.value)
        below == TimeSeriesWindow_len(w1) < cfg.min_samples
    IN  [window |-> w1,
         last_price |-> IF below THEN last_price ELSE Some(data.value),
         result |->
            IF below THEN None
            ELSE IF Price_fires(cfg, pct, z)
            THEN Some([anomaly_type |-> "PriceSpike",
                       timestamp |-> data.timestamp,
                       severity |-> Price_severity(pct, z),
                       current_value |-> data.value,
                       z_score |-> z,
                       percentage_change |-> pct])
            ELSE None]

\* detect(data): the window and last_price after the call and the result.
\* last_price becomes the current price on both paths.
PriceAnomalyDetector_detect(cfg, w, last_price, data) ==
    LET w1  == TimeSeriesWindow_push(w, data)
        z   == TimeSeriesWindow_z_score(w1, data.value)
        pct == Price_percentage_change(last_price, data.value)
    IN  [window |-> w1,
         last_price |-> Some(data.value),
         result |->
            IF TimeSeriesWindow_len(w1) < cfg.min_samples THEN None
            ELSE IF Price_fires(cfg, pct, z)
            THEN Some([anomaly_type |-> "PriceSpike",
                       timestamp |-> data.timestamp,
                       severity |-> Price_severity(pct, z),
                       current_value |-> data.value,
                       z_score |-> z,
                       percentage_change |-> pct])
            ELSE None]

\* ------------------------------------------------ AnomalyDetectorManager
\* filter_map over the two detectors, volume first.
OptToSeq(o) == IF IsSome(o) THEN << Unwrap(o) >> ELSE << >>

\* A direct call of VolumeAnomalyDetector::detect(data).
volume_detect(data) ==
    LET v == VolumeAnomalyDetector_detect(volume_config, vol_window, data)
    IN  /\ vol_window' = v.window
        /\ vol_result' = v.result
        /\ fed' = Append(fed, data)
        /\ emitted' = emitted \o OptToSeq(v.result)
        /\ UNCHANGED << program, volume_config, price_config, price_window,
                        det_last_price, price_result, anVars, monVars, spikes,
                        sysVars >>

\* A direct call of PriceAnomalyDetector::detect(data).
price_detect(data) ==
    LET p == PriceAnomalyDetector_detect(price_config, price_window,
                                         det_last_price, data)
    IN  /\ price_window' = p.window
        /\ det_last_price' = p.last_price
        /\ price_result' = p.result
        /\ fed' = Append(fed, data)
        /\ emitted' = emitted \o OptToSeq(p.result)
        /\ UNCHANGED << program, volume_config, price_config, vol_window,
                        vol_result, anVars, monVars, spikes, sysVars >>

\* VolumeAnomalyDetector::reset: a new window of the configured size.
VolumeAnomalyDetector_reset(config) == TimeSeriesWindow_new(config.window_size)

\* A reset of the price detector that keeps last_price.
PriceAnomalyDetector_reset_window(config, last_price) ==
    [window |-> TimeSeriesWindow_new(config.window_size),
     last_price |-> last_price]

\* PriceAnomalyDetector::reset: a new window, and last_price = None.
PriceAnomalyDetector_reset(config, last_price) ==
    [window |-> TimeSeriesWindow_new(config.window_size), last_price |-> None]

\* reset(symbol, exchange) for the one key of the model: reset_all resets
\* the volume detector and then the price detector.
reset_detectors ==
    /\ vol_window' = VolumeAnomalyDetector_reset(volume_config)
    /\ price_window' =
          PriceAnomalyDetector_reset(price_config, det_last_price).window
    /\ det_last_price' =
          PriceAnomalyDetector_reset(price_config, det_last_price).last_price
    /\ reset_at' = Len(fed)
    /\ UNCHANGED << program, volume_config, price_config, fed, vol_result,
                    price_result, emitted, anVars, monVars, spikes, regVars,
                    engVars, testVars, startVars, loopVars, stat_input,
                    stat_result, twin, svcVars >>

\* process_data(symbol, exchange, data) for the one key of the model:
\* detect_all hands the same data to the volume detector and then to the
\* price detector and collects what they return.
process_data(data) ==
    LET v == VolumeAnomalyDetector_detect(volume_config, vol_window, data)
        p == PriceAnomalyDetector_detect(price_config, price_window,
                                         det_last_price, data)
    IN  /\ vol_window' = v.window
        /\ price_window' = p.window
        /\ det_last_price' = p.last_price
        /\ vol_result' = v.result
        /\ price_result' = p.result
        /\ fed' = Append(fed, data)
        /\ emitted' = emitted \o OptToSeq(v.result) \o OptToSeq(p.result)
        /\ UNCHANGED << program, volume_config, price_config, anVars,
                        monVars, spikes, sysVars >>

\* -------------------------------------------------------- MarketAnalyzer
\* MarketAnalyzer::new sets max_history_size to 1000.
max_history_size == 1000
\* The window size analyze_market_data passes to MetricsCalculator::add_data.
MetricsWindowSize == 60

\* iter().rev().take(k): the last k elements, newest first.
RevTake(s, k) ==
    [i \in 1..Min(k, Len(s)) |-> s[Len(s) + 1 - i]]

SeqMax(s) == CHOOSE x \in {s[i] : i \in 1..Len(s)} :
                \A i \in 1..Len(s) : s[i] <= x
SeqMin(s) == CHOOSE x \in {s[i] : i \in 1..Len(s)} :
                \A i \in 1..Len(s) : s[i] >= x

\* update_history: push_back, then pop_front above max_history_size.
update_history_one(h, x) ==
    IF Len(h) + 1 > max_history_size THEN Tail(Append(h, x)) ELSE Append(h, x)

\* MetricsCalculator::add_data: the window of the key, created on first
\* use, gets the data pushed.
MetricsCalculator_add_data(windows, key, data, window_size) ==
    [windows EXCEPT ![key] =
        Some(TimeSeriesWindow_push(
                IF windows[key] = None THEN TimeSeriesWindow_new(window_size)
                ELSE Unwrap(windows[key]), data))]

\* check_unusual_volume: at least 30 volumes and current / average > 5.
check_unusual_volume(vh) ==
    IF Len(vh) < 30 THEN None
    ELSE LET cur == vh[Len(vh)]
             sum == SumSeq(vh)
         IN  IF cur * Len(vh) > 5 * sum
             THEN Some([anomaly_type |-> "UnusualActivity",
                        severity |-> IF cur * Len(vh) > 10 * sum
                                     THEN "Critical" ELSE "High",
                        percentage_change |->
                            Frac((cur * Len(vh) - sum) * 100, sum)])
             ELSE None

\* check_price_manipulation: over the last 10 prices a change of more than
\* 3% while the last 10 volumes average below half the historical average.
check_price_manipulation(ph, vh) ==
    IF Len(ph) < 10 THEN None
    ELSE LET recent == RevTake(ph, 10)
             change == Frac((recent[1] - recent[10]) * 100, recent[10])
             sum10  == SumSeq(RevTake(vh, 10))
         IN  IF FracAbsGT(change, 3) /\ 2 * Len(vh) * sum10 < 10 * SumSeq(vh)
             THEN Some([anomaly_type |-> "UnusualActivity",
                        severity |-> "High",
                        percentage_change |-> change])
             ELSE None

\* check_flash_crash with both comparisons inclusive.
check_flash_crash_inclusive(ph) ==
    IF Len(ph) < 5 THEN None
    ELSE LET recent == RevTake(ph, 5)
             max_price == SeqMax(recent)
             min_price == SeqMin(recent)
             current_price == recent[1]
             drop == Frac((max_price - min_price) * 100, max_price)
         IN  IF drop.n >= 10 * drop.d /\ 10 * current_price <= 9 * max_price
             THEN Some([anomaly_type |-> "PriceSpike",
                        severity |-> "Critical",
                        current_value |-> current_price,
                        expected_value |-> max_price,
                        percentage_change |-> Frac(-drop.n, drop.d)])
             ELSE None

\* check_flash_crash: over the last 5 prices, newest first,
\* drop = (max - min) / max * 100 > 10 and current < max * 0.9.
check_flash_crash(ph) ==
    IF Len(ph) < 5 THEN None
    ELSE LET recent == RevTake(ph, 5)
             max_price == SeqMax(recent)
             min_price == SeqMin(recent)
             current_price == recent[1]
             drop == Frac((max_price - min_price) * 100, max_price)
         IN  IF drop.n > 10 * drop.d /\ 10 * current_price < 9 * max_price
             THEN Some([anomaly_type |-> "PriceSpike",
                        severity |-> "Critical",
                        current_value |-> current_price,
                        expected_value |-> max_price,
                        percentage_change |-> Frac(-drop.n, drop.d)])
             ELSE None

\* The index of the first maximal element in iteration order.
max_by_index_first(prices) ==
    (CHOOSE i \in 1..Len(prices) :
        /\ prices[i] = SeqMax(prices)
        /\ \A j \in 1..(i - 1) : prices[j] # SeqMax(prices)) - 1

\* Iterator::max_by over enumerate(): the index (from 0) of the maximum,
\* the last one in iteration order when several elements are maximal.
max_by_index(prices) ==
    (CHOOSE i \in 1..Len(prices) :
        /\ prices[i] = SeqMax(prices)
        /\ \A j \in (i + 1)..Len(prices) : prices[j] # SeqMax(prices)) - 1

\* check_pump_dump: over the last 20 prices, newest first (prices[0] is the
\* newest and prices[19] the oldest), the peak at an index strictly between
\* 5 and 15, pump = (peak - oldest) / oldest * 100 > 20 and
\* dump = (peak - newest) / peak * 100 > 15.
check_pump_dump(ph, vh) ==
    IF Len(ph) < 20 \/ Len(vh) < 20 THEN None
    ELSE LET prices == RevTake(ph, 20)
             peak_idx == max_by_index(prices)
             peak_price == prices[peak_idx + 1]
             price_before == prices[20]
             price_after == prices[1]
             pump == Frac((peak_price - price_before) * 100, price_before)
             dump == Frac((peak_price - price_after) * 100, peak_price)
         IN  IF /\ peak_idx > 5 /\ peak_idx < 15
                /\ pump.n > 20 * pump.d /\ dump.n > 15 * dump.d
             THEN Some([anomaly_type |-> "UnusualActivity",
                        severity |-> "Critical",
                        current_value |-> price_after,
                        expected_value |-> price_before,
                        percentage_change |-> pump,
                        dump_percentage |-> dump])
             ELSE None

\* analyze_market_data(price, volume): update both histories and both
\* metrics windows, then run the four checks on the updated histories.
analyze_market_data(price, volume) ==
    LET ph == update_history_one(price_history, price)
        vh == update_history_one(volume_history, volume)
        ts == Len(price_history) * 1000
        m1 == MetricsCalculator_add_data(metrics, "price",
                  TimeSeriesData(ts, price), MetricsWindowSize)
        m2 == MetricsCalculator_add_data(m1, "volume",
                  TimeSeriesData(ts, volume), MetricsWindowSize)
        res == [unusual_volume |-> check_unusual_volume(vh),
                price_manipulation |-> check_price_manipulation(ph, vh),
                flash_crash |-> check_flash_crash(ph),
                pump_dump |-> check_pump_dump(ph, vh)]
    IN  /\ price_history' = ph
        /\ volume_history' = vh
        /\ metrics' = m2
        /\ an_result' = res
        /\ an_fired' = an_fired + (IF IsSome(res.pump_dump) THEN 1 ELSE 0)
        /\ UNCHANGED << program, detVars, monVars, sysVars >>

\* ------------------------------------- SymbolMonitor (improved demo)
MonitorConfig(thr, base, max, w, m, dyn) ==
    [price_change_threshold |-> thr,
     volume_anomaly_multiplier_base |-> base,
     volume_anomaly_multiplier_max |-> max,
     window_size |-> w, min_samples |-> m, dynamic_threshold |-> dyn]

MonitorConfig_default == MonitorConfig(3, 5, 20, 200, 20, TRUE)

\* The alert interval of add_data_point: Duration::from_secs(2), in ms.
AlertIntervalMs == 2000

\* The element at index k (from 0) of the sorted copy of xs.
SortedAt(xs, k) ==
    CHOOSE x \in {xs[i] : i \in DOMAIN xs} :
        /\ Cardinality({i \in DOMAIN xs : xs[i] < x}) <= k
        /\ k < Cardinality({i \in DOMAIN xs : xs[i] <= x})

\* A p95 that is the last element of the sorted copy.
percentile_index_last(n) == n - 1

\* (sorted.len() as f64 * 0.95) as usize.  The product of n and the f64
\* nearest to 0.95 is within half an ulp of 0.95 * n, so it rounds to
\* 0.95 * n where that is an integer and truncates to floor(0.95 * n).
percentile_index(n) == (95 * n) \div 100

\* Statistics::calculate: None on an empty slice; otherwise the mean
\* sum / n, the standard deviation sqrt(var_num) / n (var_num / n^2 is the
\* population variance), min, max and the element at index
\* (n as f64 * 0.95) as usize of the sorted copy.
Statistics_calculate(xs) ==
    IF xs = << >> THEN None
    ELSE Some([n |-> Len(xs),
               sum |-> SumSeq(xs),
               var_num |-> Len(xs) * SumSeq([i \in DOMAIN xs |-> xs[i] * xs[i]])
                             - SumSeq(xs) * SumSeq(xs),
               min |-> SortedAt(xs, 0),
               max |-> SortedAt(xs, Len(xs) - 1),
               percentile_95 |-> SortedAt(xs, percentile_index(Len(xs)))])

\* A call of Statistics::calculate that has not been made yet, and the call.
NotCalled == << [called |-> FALSE] >>

Statistics_call ==
    /\ stat_result = NotCalled
    /\ stat_result' = Statistics_calculate(stat_input)
    /\ UNCHANGED << program, detVars, anVars, monVars, spikes, regVars,
                    engVars, testVars, startVars, loopVars, stat_input,
                    reset_at, twin, svcVars >>

\* VecDeque with the demo's eviction: pop_front at window_size, push_back.
WindowPush(q, x, window_size) ==
    Append(IF Len(q) >= window_size /\ q # << >> THEN Tail(q) ELSE q, x)

SymbolMonitor_new(config) ==
    [data_points |-> << >>,
     last_price |-> 0,
     total_volume |-> 0,
     trade_count |-> 0,
     price_changes |-> << >>,
     volume_history |-> << >>,
     anomalies_detected |-> 0,
     false_positives |-> 0,
     last_alert_time |-> None,
     dynamic_volume_threshold |->
        [dynamic |-> FALSE, base |-> config.volume_anomaly_multiplier_base]]

\* ((price - last_price) / last_price * 100).abs().  The prices of the runs
\* are such that the quotient is an integer.
price_change_pct(price, last_price) ==
    (Abs(price - last_price) * 100) \div last_price

\* x > mean + 2 * std_dev over the statistics st:
\* n*x - sum > 2 * sqrt(var_num).
AboveTwoSigma(x, st) ==
    /\ st.n * x - st.sum > 0
    /\ (st.n * x - st.sum) * (st.n * x - st.sum) > 4 * st.var_num

\* A dynamic threshold that forgets the configured one.
AbovePriceThreshold_unfloored(pct, st, config) ==
    IF config.dynamic_threshold THEN AboveTwoSigma(pct, st)
    ELSE pct > config.price_change_threshold

\* price_change_pct > dynamic_price_threshold, the threshold being
\* max(mean + 2 * std_dev, price_change_threshold) when dynamic and
\* price_change_threshold otherwise.
AbovePriceThreshold(pct, st, config) ==
    /\ pct > config.price_change_threshold
    /\ config.dynamic_threshold => AboveTwoSigma(pct, st)

\* A multiplier without the .min(volume_anomaly_multiplier_max): the cap
\* it carries is above every base * (1.5 + min(std_dev / mean, 2)).
DynamicVolumeThreshold_uncapped(st, config) ==
    [dynamic |-> TRUE,
     base |-> config.volume_anomaly_multiplier_base,
     max |-> 4 * config.volume_anomaly_multiplier_base,
     n |-> st.n, sum |-> st.sum, var_num |-> st.var_num]

\* The multiplier assigned to dynamic_volume_threshold when dynamic:
\* min(base * (1.5 + min(std_dev / mean, 2)), max), kept with the statistics
\* it was computed from.
DynamicVolumeThreshold(st, config) ==
    [dynamic |-> TRUE,
     base |-> config.volume_anomaly_multiplier_base,
     max |-> config.volume_anomaly_multiplier_max,
     n |-> st.n, sum |-> st.sum, var_num |-> st.var_num]

\* volume > mean * dynamic_volume_threshold over the statistics st.  A fixed
\* multiplier: n * volume > sum * base.  The dynamic multiplier is computed
\* from st itself, and with a mean >= 0
\*    mean * min(base * (1.5 + min(std/mean, 2)), max)
\*  = min(base * (1.5 * mean + std), 3.5 * base * mean, max * mean),
\* so volume is above it iff it is above one of the three; on a mean of 0
\* (std/mean is NaN and NaN.min(2.0) is 2.0) the product is 0.
AboveVolumeThreshold(volume, st, thr) ==
    IF ~ thr.dynamic THEN st.n * volume > st.sum * thr.base
    ELSE \/ /\ 2 * st.n * volume - 3 * thr.base * st.sum > 0
            /\ (2 * st.n * volume - 3 * thr.base * st.sum)
                  * (2 * st.n * volume - 3 * thr.base * st.sum)
               > 4 * thr.base * thr.base * st.var_num
         \/ 2 * st.n * volume > 7 * thr.base * st.sum
         \/ st.n * volume > thr.max * st.sum

\* A counter that counts alerts: a detector that fires into an alert that
\* is already there is not counted.
count_anomaly_per_alert(count, alert_is_some) ==
    IF alert_is_some THEN count ELSE count + 1

\* self.anomalies_detected += 1 of a detector that fires, whether or not
\* alert is Some already.
count_anomaly(count, alert_is_some) == count + 1

\* An early return that has recorded the price change before it.
skip_detection_late(m1, point) ==
    [monitor |-> [m1 EXCEPT
                    !.price_changes =
                        IF m1.last_price > 0
                        THEN Append(@, price_change_pct(point.price,
                                                        m1.last_price))
                        ELSE @,
                    !.last_price = point.price],
     alert |-> None]

\* The early returns of add_data_point, below min_samples and within the
\* alert interval: self.last_price = point.price; return None.
skip_detection(m1, point) ==
    [monitor |-> [m1 EXCEPT !.last_price = point.price], alert |-> None]

\* add_data_point(point, config) at the instant t: the monitor after the
\* call and the Option<String> returned, of which the model keeps which of
\* the two alerts it holds.
SymbolMonitor_add_data_point(m, point, config, t) ==
    LET m1 == [m EXCEPT
                 !.trade_count = @ + 1,
                 !.total_volume = @ + point.volume,
                 !.data_points = WindowPush(@, point, config.window_size),
                 !.volume_history =
                     WindowPush(@, point.volume, config.window_size)]
        debounced ==
            /\ IsSome(m1.last_alert_time)
            /\ t - Unwrap(m1.last_alert_time) < AlertIntervalMs
        \* the price check
        pct == price_change_pct(point.price, m1.last_price)
        changes == WindowPush(m1.price_changes, pct, config.window_size)
        price_stats == Unwrap(Statistics_calculate(changes))
        price_alert ==
            /\ m1.last_price > 0
            /\ AbovePriceThreshold(pct, price_stats, config)
            /\ pct > price_stats.percentile_95
        m2 == IF m1.last_price > 0
              THEN [m1 EXCEPT
                      !.price_changes = changes,
                      !.anomalies_detected =
                          IF price_alert THEN count_anomaly(@, FALSE) ELSE @,
                      !.last_alert_time =
                          IF price_alert THEN Some(t) ELSE @]
              ELSE m1
        \* the volume check
        volume_stats == Unwrap(Statistics_calculate(m2.volume_history))
        thr == IF config.dynamic_threshold
               THEN DynamicVolumeThreshold(volume_stats, config)
               ELSE m2.dynamic_volume_threshold
        volume_alert ==
            /\ AboveVolumeThreshold(point.volume, volume_stats, thr)
            /\ 2 * point.volume > 3 * volume_stats.percentile_95
        m3 == [m2 EXCEPT
                 !.dynamic_volume_threshold = thr,
                 !.anomalies_detected =
                     IF volume_alert THEN count_anomaly(@, price_alert) ELSE @,
                 !.last_alert_time = IF volume_alert THEN Some(t) ELSE @,
                 !.last_price = point.price]
    IN  IF Len(m1.data_points) < config.min_samples
        THEN skip_detection(m1, point)
        ELSE IF debounced
        THEN skip_detection(m1, point)
        ELSE [monitor |-> m3,
              alert |-> IF price_alert \/ volume_alert
                        THEN Some([price |-> price_alert,
                                   volume |-> volume_alert])
                        ELSE None]

\* MonitoringSystem::process_trade for the one symbol, dt ms after the
\* previous call.
process_trade(price, volume, dt) ==
    LET r == SymbolMonitor_add_data_point(
                 monitor, [price |-> price, volume |-> volume],
                 mon_config, now + dt)
    IN  /\ now' = now + dt
        /\ monitor' = r.monitor
        /\ mon_alert' = r.alert
        /\ mon_alert_times' = IF IsSome(r.alert)
                              THEN Append(mon_alert_times, now + dt)
                              ELSE mon_alert_times
        /\ UNCHANGED << program, mon_config, detVars, anVars, sysVars >>

\* ------------------------------------------------------------ AutoTrader
\* The positions map holds one key, exchange:symbol of the instrument
\* traded.  DashMap::get_mut returns a RefMut that holds the write lock of
\* the key's shard until it is dropped; insert and remove take that lock
\* and wait while another reference holds it.
TradingConfig == [stop_loss_percentage |-> 10, take_profit_percentage |-> 10]

\* SimpleRiskManager::get_stop_loss and get_take_profit.
get_stop_loss(entry_price, side) ==
    IF side = "Long"
    THEN (entry_price * (100 - TradingConfig.stop_loss_percentage)) \div 100
    ELSE (entry_price * (100 + TradingConfig.stop_loss_percentage)) \div 100

get_take_profit(entry_price, side) ==
    IF side = "Long"
    THEN (entry_price * (100 + TradingConfig.take_profit_percentage)) \div 100
    ELSE (entry_price * (100 - TradingConfig.take_profit_percentage)) \div 100

\* Position::update_price, should_stop_loss and should_take_profit.
Position_update_price(position, price) ==
    [position EXCEPT !.current_price = price]

should_stop_loss(position) ==
    IF position.side = "Long"
    THEN position.current_price <= position.stop_loss
    ELSE position.current_price >= position.stop_loss

should_take_profit(position) ==
    IF position.side = "Long"
    THEN position.current_price >= position.take_profit
    ELSE position.current_price <= position.take_profit

AutoTrader_new ==
    [positions |-> None,      \* the entry of the key, if any
     guard |-> None,          \* the task whose RefMut holds the shard's lock
     update |-> "idle",       \* where the update_positions task is
     pending |-> None,        \* the signal whose opening order was executed
     next_id |-> 1,
     closed |-> {},           \* ids of the positions closed by an order
     events |-> 0]

\* execute_signal up to the order's execution: the risk manager's verdict,
\* the side of the signal, and what open_order returned.
execute_signal(t, signal, valid, outcome) ==
    LET t1 == [t EXCEPT !.events = @ + 1]
    IN  IF ~valid \/ signal.signal_type = "Hold" \/ outcome # "order"
        THEN t1
        ELSE [t1 EXCEPT !.pending = Some(signal)]

\* create_position: the new position is inserted under the key, replacing
\* the entry the map holds for it.
create_position(t) ==
    LET signal == Unwrap(t.pending)
        side == IF signal.signal_type = "Buy" THEN "Long" ELSE "Short"
    IN  [t EXCEPT
           !.positions = Some([id |-> t.next_id,
                               side |-> side,
                               entry_price |-> signal.price,
                               current_price |-> signal.price,
                               stop_loss |-> get_stop_loss(signal.price, side),
                               take_profit |->
                                   get_take_profit(signal.price, side)]),
           !.next_id = @ + 1,
           !.pending = None]

\* update_positions up to the call of close_position: get_mut, update_price
\* and the two checks.  The RefMut lives to the end of the if-let block,
\* so it is held across close_position(..).await.
update_positions(t, price) ==
    LET t1 == [t EXCEPT !.events = @ + 1]
    IN  IF ~IsSome(t.positions)
        THEN t1
        ELSE LET position == Position_update_price(Unwrap(t.positions), price)
                 t2 == [t1 EXCEPT !.positions = Some(position)]
             IN  IF should_stop_loss(position) \/ should_take_profit(position)
                 THEN [t2 EXCEPT !.guard = Some("update_positions"),
                                 !.update = "close_position"]
                 ELSE t2

\* close_position: positions.remove waits for the shard's lock; with the
\* lock it takes the entry out, sends the closing order and re-inserts the
\* position if the order failed.
close_position(t, outcome) ==
    IF IsSome(t.guard)
    THEN [t EXCEPT !.update = "blocked"]
    ELSE IF ~IsSome(t.positions)
    THEN [t EXCEPT !.update = "idle"]
    ELSE LET position == Unwrap(t.positions)
         IN  [t EXCEPT
                !.positions = IF outcome = "err" THEN Some(position) ELSE None,
                !.closed = IF outcome = "order"
                           THEN @ \cup {position.id} ELSE @,
                !.update = "idle"]

\* ------------------------------------------------- WebSocket API state
\* AppState for one client id: whether websocket_clients holds its sender,
\* and its entry of subscriptions, a Vec of channels, if any.
AppState_new == [websocket_clients |-> FALSE, subscriptions |-> None,
                 queued |-> 0]

add_websocket_client(st) == [st EXCEPT !.websocket_clients = TRUE]

remove_websocket_client(st) ==
    [st EXCEPT !.websocket_clients = FALSE, !.subscriptions = None]

\* subscriptions.entry(client_id).or_insert_with(Vec::new).push(sub)
add_subscription(st, channel) ==
    [st EXCEPT !.subscriptions =
        Some(Append(IF IsSome(@) THEN Unwrap(@) ELSE << >>, channel))]

\* subs.retain(|s| s.channel != subscription.channel), if the entry exists
remove_subscription(st, channel) ==
    IF IsSome(st.subscriptions)
    THEN [st EXCEPT !.subscriptions =
            Some(SelectSeq(Unwrap(@), LAMBDA c : c # channel))]
    ELSE st

\* broadcast_to_subscribers with the filter of a channel: a message is
\* queued for the client if an entry of subscriptions matches and
\* websocket_clients holds its sender.
broadcast_to_subscribers(st, channel) ==
    IF /\ IsSome(st.subscriptions)
       /\ \E i \in DOMAIN Unwrap(st.subscriptions) :
             Unwrap(st.subscriptions)[i] \in {channel, "all"}
       /\ st.websocket_clients
    THEN [st EXCEPT !.queued = @ + 1]
    ELSE st

\* handle_client_message: it has no await, so a task that has entered it
\* runs it to its end.
handle_client_message(st, msg) ==
    IF msg.msg_type = "Subscribe" THEN add_subscription(st, msg.channel)
    ELSE IF msg.msg_type = "Unsubscribe"
    THEN remove_subscription(st, msg.channel)
    ELSE IF msg.msg_type = "Heartbeat" /\ st.websocket_clients
    THEN [st EXCEPT !.queued = @ + 1]
    ELSE st

\* handle_socket up to the select: the client is registered and the two
\* tasks are spawned.  recv is "waiting" in receiver.next().await, or
\* "handling" the message in hand on a worker thread of its own.
handle_socket_start ==
    [state |-> add_websocket_client(AppState_new),
     handler |-> "select",
     send_task |-> "running",
     recv_task |-> "waiting",
     in_hand |-> None,
     abort_requested |-> FALSE,
     events |-> 0]

\* The receive task takes the next message of the socket: a text message
\* is handled, Close ends the task.
recv_task_next(w, msg) ==
    IF msg.msg_type = "Close"
    THEN [w EXCEPT !.recv_task = "finished", !.events = @ + 1]
    ELSE [w EXCEPT !.recv_task = "handling", !.in_hand = Some(msg),
                   !.events = @ + 1]

recv_task_handle(w) ==
    [w EXCEPT !.state = handle_client_message(@, Unwrap(w.in_hand)),
              !.in_hand = None,
              !.recv_task = "waiting"]

\* JoinHandle::abort: the task is cancelled when it next yields; a task
\* that is running keeps running up to its next await.
recv_task_cancelled(w) == [w EXCEPT !.recv_task = "aborted"]

\* tokio::select! over the two tasks: the one that did not finish is asked
\* to abort (the send task is always at an await), and nobody waits for it.
handle_socket_select(w) ==
    IF w.send_task = "finished"
    THEN [w EXCEPT !.abort_requested = TRUE, !.handler = "cleanup"]
    ELSE [w EXCEPT !.send_task = "aborted", !.handler = "cleanup"]

handle_socket_cleanup(w) ==
    [w EXCEPT !.state = remove_websocket_client(@), !.handler = "finished"]

\* ------------------------------------------------- NotificationManager
\* channels is the Vec behind the RwLock; spawned the tasks add_channel has
\* spawned that have not pushed their channel yet.
NotificationManager_new ==
    [channels |-> << >>, spawned |-> {}, added |-> << >>, seen |-> None,
     calls |-> 0]

\* add_channel: spawns the task that will push the channel, and returns.
add_channel(n, channel) ==
    [n EXCEPT !.spawned = @ \cup {channel}, !.added = Append(@, channel)]

\* The spawned task: channels.write().await.push(channel).
add_channel_task(n, channel) ==
    [n EXCEPT !.channels = Append(@, channel), !.spawned = @ \ {channel}]

\* send_all: the channels it iterates under the read lock; the model
\* keeps them with the channels add_channel had been given by then.
send_all(n) ==
    [n EXCEPT !.seen = Some([list |-> n.channels, added |-> n.added]),
              !.calls = @ + 1]

\* ------------------------------------- MonitoringSystem: tasks and locks
\* The four tokio mutexes of MonitoringSystem with the task that holds
\* each, the values behind them (of a monitor, its trade_count), and the
\* position of the task that processes trades, of a spawned handle_error
\* and of the report task.  lock().await completes when the mutex is free.
SystemSymbols == {"btcusdt", "ethusdt"}
SystemLocks == <<"monitors", "total_events", "error_count", "filtered_errors">>

MonitoringSystem_new ==
    [locks |-> [l \in {SystemLocks[i] : i \in DOMAIN SystemLocks} |-> None],
     monitors |-> [sym \in SystemSymbols |-> 0],
     total_events |-> 0,
     error_count |-> 0,
     filtered_errors |-> 0,
     pc |-> [trade |-> "idle", error |-> "idle", report |-> "idle"],
     symbol |-> None,
     read |-> None,
     reports |-> << >>,
     calls |-> [trade |-> 0, error |-> 0, report |-> 0]]

\* The guards of a task are dropped when its function returns.
drop_guards(locks, task) ==
    [l \in DOMAIN locks |-> IF locks[l] = Some(task) THEN None ELSE locks[l]]

\* process_trade with the monitors guard dropped after add_data_point.
process_trade_monitors_released(m) ==
    [m EXCEPT !.monitors[Unwrap(m.symbol)] = @ + 1,
              !.pc.trade = "total_events"]

\* process_trade: self.monitors.lock().await, the monitor of the symbol
\* and add_data_point, which counts the trade; the guard stays held.
process_trade_monitors(m) ==
    [m EXCEPT !.locks.monitors = Some("trade"),
              !.monitors[Unwrap(m.symbol)] = @ + 1,
              !.pc.trade = "total_events"]

\* let mut total = self.total_events.lock().await
process_trade_total(m) ==
    [m EXCEPT !.locks.total_events = Some("trade"), !.pc.trade = "count"]

\* *total += 1, and the end of the function
process_trade_done(m) ==
    [m EXCEPT !.total_events = @ + 1,
              !.locks = drop_guards(@, "trade"),
              !.symbol = None,
              !.pc.trade = "idle"]

\* handle_error: the lock of the counter that the message selects, then
\* the increment and the end of the block.
handle_error_lock(m, noise) ==
    IF noise
    THEN [m EXCEPT !.locks.filtered_errors = Some("error"),
                   !.pc.error = "filtered"]
    ELSE [m EXCEPT !.locks.error_count = Some("error"),
                   !.pc.error = "errors"]

handle_error_count(m) ==
    [m EXCEPT !.filtered_errors = IF m.pc.error = "filtered" THEN @ + 1 ELSE @,
              !.error_count = IF m.pc.error = "errors" THEN @ + 1 ELSE @,
              !.locks = drop_guards(@, "error"),
              !.pc.error = "idle"]

\* generate_report: the monitors guard is held to the end; each counter
\* is read under its lock, which is released at the end of the statement.
generate_report_monitors(m) ==
    [m EXCEPT !.locks.monitors = Some("report"), !.pc.report = "total_events"]

generate_report_total(m) ==
    [m EXCEPT !.read = Some(m.total_events), !.pc.report = "error_count"]

generate_report_error_count(m) ==
    [m EXCEPT !.pc.report = "filtered_errors"]

\* The last read, the printing of the report with the statistics of each
\* monitor, and the end of the function.
generate_report_print(m) ==
    [m EXCEPT !.reports = Append(@, [total_events |-> Unwrap(m.read),
                                     monitors |-> m.monitors]),
              !.read = None,
              !.locks = drop_guards(@, "report"),
              !.pc.report = "idle"]

\* ------------------------------------------- monitor_demo (first version)
\* MonitorConfig and SymbolMonitor of monitor_demo.rs.
Demo_MonitorConfig(thr, mult, w) ==
    [price_change_threshold |-> thr, volume_anomaly_multiplier |-> mult,
     window_size |-> w]

Demo_MonitorConfig_default == Demo_MonitorConfig(2, 3, 100)

Demo_SymbolMonitor_new ==
    [data_points |-> << >>,
     last_price |-> 0,
     total_volume |-> 0,
     trade_count |-> 0,
     price_changes |-> << >>,
     anomalies_detected |-> 0]

\* SymbolMonitor::add_data_point of monitor_demo.rs: the price check
\* against last_price, the volume check against the average of the last
\* ten volumes, then the update of the window.
Demo_SymbolMonitor_add_data_point(m, point, config) ==
    LET has_last == m.last_price > 0
        pct == price_change_pct(point.price, m.last_price)
        price_alert == has_last /\ pct > config.price_change_threshold
        last_ten == LastK(m.data_points, 10)
        sum_volume == SumSeq([i \in DOMAIN last_ten |-> last_ten[i].volume])
        volume_alert ==
            /\ Len(m.data_points) >= 10
            /\ 10 * point.volume > sum_volume * config.volume_anomaly_multiplier
        kinds == (IF price_alert THEN << "price" >> ELSE << >>)
                    \o (IF volume_alert THEN << "volume" >> ELSE << >>)
    IN  [monitor |->
            [data_points |->
                Append(IF Len(m.data_points) >= config.window_size
                          /\ m.data_points # << >>
                       THEN Tail(m.data_points) ELSE m.data_points, point),
             last_price |-> point.price,
             total_volume |-> m.total_volume + point.volume,
             trade_count |-> m.trade_count + 1,
             price_changes |->
                IF has_last
                THEN Append(m.price_changes, pct)
                ELSE m.price_changes,
             anomalies_detected |-> m.anomalies_detected + Len(kinds)],
         alert |-> IF kinds = << >> THEN None ELSE Some(kinds)]

\* MonitoringSystem::process_trade of monitor_demo.rs on the monitor of
\* the symbol.
Demo_process_trade(price, volume) ==
    LET r == Demo_SymbolMonitor_add_data_point(
                 monitor, [price |-> price, volume |-> volume], mon_config)
    IN  /\ monitor' = r.monitor
        /\ mon_alert' = r.alert
        /\ UNCHANGED << program, mon_config, now, mon_alert_times, detVars,
                        anVars, sysVars >>

\* ----------------------------------- AnomalyDetectorManager (registry)
\* Strings are sequences of tokens, format!("{}:{}", a, b) their
\* concatenation around the token ":".
format_key(exchange, symbol) == exchange \o << ":" >> \o symbol

\* A CompositeAnomalyDetector as get_or_create_detector and process_data
\* build it: a volume detector and a price detector, in this order.
CompositeAnomalyDetector_new(vc, pc) ==
    [vol_window |-> TimeSeriesWindow_new(vc.window_size),
     price_window |-> TimeSeriesWindow_new(pc.window_size),
     last_price |-> None]

\* detect_all(data): every detector of the composite gets the same data.
CompositeAnomalyDetector_detect_all(c, vc, pc, data) ==
    LET v == VolumeAnomalyDetector_detect(vc, c.vol_window, data)
        p == PriceAnomalyDetector_detect(pc, c.price_window, c.last_price,
                                         data)
    IN  [detector |-> [vol_window |-> v.window,
                       price_window |-> p.window,
                       last_price |-> p.last_price],
         anomalies |-> OptToSeq(v.result) \o OptToSeq(p.result)]

\* reset_all: each detector replaces its window by an empty one, the price
\* detector also forgets last_price.
CompositeAnomalyDetector_reset_all(c, vc, pc) ==
    [vol_window |-> VolumeAnomalyDetector_reset(vc),
     price_window |-> PriceAnomalyDetector_reset(pc, c.last_price).window,
     last_price |-> PriceAnomalyDetector_reset(pc, c.last_price).last_price]

\* detectors.entry(key).or_insert_with(...): the map with the key present.
entry_or_insert(map, key, fresh) ==
    IF key \in DOMAIN map THEN map ELSE (key :> fresh) @@ map

\* An entry of the log of observations: the components the caller gave, the
\* trade, the map key the registry used, and the operation.
Observation(instrument, price, volume, key, via) ==
    [instrument |-> instrument, price |-> price, volume |-> volume,
     key |-> key, via |-> via]

\* process_data(symbol, exchange, data), under the write lock from the
\* lookup to the end of detect_all.
Manager_process_data(symbol, exchange, data) ==
    LET key == format_key(exchange, symbol)
        map == entry_or_insert(detectors, key,
                   CompositeAnomalyDetector_new(volume_config, price_config))
        r == CompositeAnomalyDetector_detect_all(map[key], volume_config,
                                                 price_config, data)
    IN  [detectors |-> [map EXCEPT ![key] = r.detector],
         key |-> key,
         anomalies |-> r.anomalies]

\* process_single_event(event) of the monitor application for a trade: the
\* sample handed to process_data carries the price of the trade.
process_single_event(event) ==
    LET r == Manager_process_data(event.symbol, event.exchange,
                 TimeSeriesData(event.timestamp, event.price))
    IN  /\ detectors' = r.detectors
        /\ observed' = Append(observed,
              Observation(<< event.exchange, event.symbol >>, event.price,
                          event.volume, r.key, "process_data"))
        /\ UNCHANGED << program, auxVars, detVars, anVars, monVars, spikes, handle,
                        monitors, engVars, testVars,
                        startVars, loopVars >>

\* get_or_create_detector(symbol, exchange): the entry is created if it is
\* missing, and the caller receives a CompositeAnomalyDetector by value.
get_or_create_detector(symbol, exchange) ==
    LET key == format_key(exchange, symbol)
        map == entry_or_insert(detectors, key,
                   CompositeAnomalyDetector_new(volume_config, price_config))
    IN  /\ detectors' = map
        /\ handle' = Some([key |-> key,
                            instrument |-> << exchange, symbol >>,
                            detector |-> map[key]])
        /\ UNCHANGED << program, auxVars, detVars, anVars, monVars, spikes, monitors,
                        observed, engVars, testVars,
                        startVars, loopVars >>

\* detect_all(data) on the detector the caller holds.
handle_detect_all(data, volume) ==
    LET h == Unwrap(handle)
        r == CompositeAnomalyDetector_detect_all(h.detector, volume_config,
                                                 price_config, data)
    IN  /\ handle' = Some([h EXCEPT !.detector = r.detector])
        /\ observed' = Append(observed,
              Observation(h.instrument, data.value, volume, h.key,
                          "get_or_create_detector"))
        /\ UNCHANGED << program, auxVars, detVars, anVars, monVars, spikes, detectors,
                        monitors, engVars, testVars,
                        startVars, loopVars >>

\* reset(symbol, exchange): reset_all on the entry, if there is one.
Manager_reset(symbol, exchange) ==
    LET key == format_key(exchange, symbol)
    IN  /\ detectors' =
              IF key \in DOMAIN detectors
              THEN [detectors EXCEPT ![key] =
                       CompositeAnomalyDetector_reset_all(@, volume_config,
                                                          price_config)]
              ELSE detectors
        /\ observed' = Append(observed,
              Observation(<< exchange, symbol >>, 0, 0, key, "reset"))
        /\ UNCHANGED << program, auxVars, detVars, anVars, monVars, spikes, handle,
                        monitors, engVars, testVars,
                        startVars, loopVars >>

\* --------------------------------------- MonitoringSystem (registry)
\* MonitoringSystem::process_trade(exchange, symbol, market_type, price,
\* volume), dt ms after the previous call: the monitor is looked up, and
\* created if missing, under the symbol alone.
MonitoringSystem_process_trade(exchange, symbol, market_type, price, volume, dt) ==
    LET key == symbol
        map == entry_or_insert(monitors, key, SymbolMonitor_new(mon_config))
        r == SymbolMonitor_add_data_point(
                 map[key], [price |-> price, volume |-> volume],
                 mon_config, now + dt)
    IN  /\ monitors' = [map EXCEPT ![key] = r.monitor]
        /\ now' = now + dt
        /\ mon_alert' = r.alert
        /\ mon_alert_times' = IF IsSome(r.alert)
                              THEN Append(mon_alert_times, now + dt)
                              ELSE mon_alert_times
        /\ observed' = Append(observed,
              Observation(<< exchange, symbol, market_type >>, price, volume,
                          key, "process_trade"))
        /\ UNCHANGED << program, auxVars, mon_config, monitor, detVars, anVars,
                        spikes, detectors, handle, engVars, testVars,
                        startVars >>

\* ---------------------------------------------------------- MonitorEngine
\* The event process_exchange_streams builds from the seq-th item of the
\* streams of an exchange.
MonitorEvent(exchange, seq) == [source |-> exchange, seq |-> seq]

\* config.fluvio.partitions of the runs, and RecordKey::NULL.
Partitions == 2
RecordKey_NULL == << >>

\* What process_event leaves behind for an event: the outcome, the number
\* of sends, the key handed to the producer and the partition the record
\* went to.
BusRecord(event, outcome, attempts, key, partition) ==
    [event |-> event, outcome |-> outcome, attempts |-> attempts,
     key |-> key, partition |-> partition]

\* process_event up to its await: the topic of a trade has a producer, the
\* event is serialized; a serialization error is logged and the function
\* returns.
process_event_serialize(event, serialized) ==
    IF serialized
    THEN [in_flight |-> Some(event), log |-> << >>]
    ELSE [in_flight |-> None,
          log |-> << BusRecord(event, "serialize_failed", 0,
                               RecordKey_NULL, None) >>]

\* A processing loop that ends at the first failed send.
process_event_send_stops(event, sent, partition) ==
    IF sent
    THEN [log |-> << BusRecord(event, "published", 1, RecordKey_NULL,
                               Some(partition)) >>,
          engine |-> "running"]
    ELSE [log |-> << BusRecord(event, "send_failed", 1, RecordKey_NULL,
                               None) >>,
          engine |-> "stopped"]

\* process_event from producer.send(RecordKey::NULL, data).await on: one
\* attempt with no key, so that the partition is the producer's choice;
\* an error is logged and the function returns to the loop of
\* start_event_processing.
process_event_send(event, sent, partition) ==
    [log |-> << BusRecord(event, IF sent THEN "published" ELSE "send_failed",
                          1, RecordKey_NULL,
                          IF sent THEN Some(partition) ELSE None) >>,
     engine |-> "running"]

\* One iteration of the loop of process_exchange_streams: the next item of
\* the streams becomes a MonitorEvent and is sent on the channel; the send
\* never waits, and fails (the event is logged and lost) only when the
\* receiver is gone.
stream_next(exchange) ==
    /\ tasks.streams[exchange] = "running"
    /\ produced' = [produced EXCEPT ![exchange] = @ + 1]
    /\ event_queue' =
          IF tasks.engine = "running"
          THEN Append(event_queue,
                      MonitorEvent(exchange, produced[exchange] + 1))
          ELSE event_queue
    /\ UNCHANGED << program, auxVars, detVars, anVars, monVars, spikes, regVars,
                    in_flight, bus_log, tasks, testVars, startVars, loopVars >>

\* event_rx.recv() returns the oldest event and process_event starts.
engine_recv(serialized) ==
    /\ tasks.engine = "running"
    /\ in_flight = None
    /\ event_queue # << >>
    /\ LET r == process_event_serialize(Head(event_queue), serialized)
       IN  /\ in_flight' = r.in_flight
           /\ bus_log' = bus_log \o r.log
    /\ event_queue' = Tail(event_queue)
    /\ UNCHANGED << program, auxVars, detVars, anVars, monVars, spikes, regVars,
                    produced, tasks, testVars, startVars, loopVars >>

\* producer.send(..) completes, with Ok or Err.
engine_send_done(sent, partition) ==
    /\ tasks.engine = "running"
    /\ in_flight # None
    /\ LET r == process_event_send(Unwrap(in_flight), sent, partition)
       IN  /\ bus_log' = bus_log \o r.log
           /\ tasks' = [tasks EXCEPT !.engine = r.engine]
    /\ in_flight' = None
    /\ UNCHANGED << program, auxVars, detVars, anVars, monVars, spikes, regVars,
                    produced, event_queue, testVars, startVars, loopVars >>

\* MonitorEngine::stop: the event-processing task is aborted, at whatever
\* await it is, and stop returns Ok; the channel, what it holds, the send
\* in progress and the stream tasks are not touched.
engine_stop ==
    /\ tasks.engine = "running"
    /\ tasks' = [tasks EXCEPT !.engine = "aborted"]
    /\ UNCHANGED << program, auxVars, detVars, anVars, monVars, spikes, regVars,
                    produced, event_queue, in_flight, bus_log, testVars,
                    startVars, loopVars >>

\* ---------------------------------------------- MonitorEngine::start
\* s.contains(pat): pat is a contiguous part of s.
contains(s, pat) ==
    \E i \in 0..(Len(s) - Len(pat)) :
        \A j \in 1..Len(pat) : s[i + j] = pat[j]

\* The six topics of initialize_topics, in the order of its vec!:
\* format!("{}.market.trades", prefix) and so on.
EngineTopics ==
    << << "prefix", ".market.trades" >>, << "prefix", ".market.orderbook" >>,
       << "prefix", ".market.candles" >>, << "prefix", ".anomalies" >>,
       << "prefix", ".alerts" >>, << "prefix", ".trades" >> >>

\* The texts of the errors admin.create returns in the runs: that of an
\* existing topic, and another one.
ErrAlreadyExists == << "Topic ", "already exists" >>
ErrOther == << "timed out" >>

\* start() before its first await: nothing returned, no error met.
StartState_new == [next |-> 1, errors |-> << >>, result |-> None]

\* The match on the result of admin.create with every Err an error.
create_outcome_strict(created) ==
    IF IsSome(created.err) THEN "return_err" ELSE "created"

\* The match on the result of admin.create: Ok, an Err whose text contains
\* "already exists", any other Err.
create_outcome(created) ==
    IF ~ IsSome(created.err) THEN "created"
    ELSE IF contains(Unwrap(created.err), << "already exists" >>)
    THEN "exists"
    ELSE "return_err"

\* One iteration of the loop of initialize_topics, for the topic
\* start_state.next: admin.create answers created, then topic_producer
\* answers producer_ok; an error of either returns Err from
\* initialize_topics and, by the ? of start, from start.
initialize_topics_step(created, producer_ok) ==
    LET topic == EngineTopics[start_state.next]
        outcome == create_outcome(created)
        errors == start_state.errors
                    \o (IF IsSome(created.err)
                        THEN << [topic |-> topic, at |-> "create",
                                 err |-> Unwrap(created.err)] >>
                        ELSE << >>)
    IN  /\ start_state.result = None
        /\ start_state.next <= Len(EngineTopics)
        /\ cluster_topics' = IF IsSome(created.err) THEN cluster_topics
                              ELSE cluster_topics \cup {topic}
        /\ IF outcome = "return_err"
           THEN /\ start_state' = [start_state EXCEPT
                                     !.errors = errors,
                                     !.result = Some("Err")]
                /\ UNCHANGED producers
           ELSE IF ~ producer_ok
           THEN /\ start_state' = [start_state EXCEPT
                     !.errors = Append(errors,
                         [topic |-> topic, at |-> "topic_producer",
                          err |-> ErrOther]),
                     !.result = Some("Err")]
                /\ UNCHANGED producers
           ELSE /\ start_state' = [start_state EXCEPT
                                     !.errors = errors, !.next = @ + 1]
                /\ producers' =
                      (topic :> [topic |-> topic, made |-> start_state.next])
                         @@ producers
        /\ UNCHANGED << program, auxVars, detVars, anVars, monVars, spikes, regVars,
                        engVars, testVars, loopVars >>

\* The rest of start after initialize_topics returned Ok:
\* start_market_data_collection and start_event_processing return Ok.
start_rest ==
    /\ start_state.result = None
    /\ start_state.next > Len(EngineTopics)
    /\ start_state' = [start_state EXCEPT !.result = Some("Ok")]
    /\ UNCHANGED << program, auxVars, detVars, anVars, monVars, spikes, regVars,
                    engVars, testVars, cluster_topics, producers, loopVars >>

\* --------------------------------------------- the improved demo's loop
\* The texts handle_error looks for, one character per element.
Text_pong == << "p", "o", "n", "g" >>
Text_ping == << "p", "i", "n", "g" >>
Text_subscription_id ==
    << "s", "u", "b", "s", "c", "r", "i", "p", "t", "i", "o", "n", "_",
       "i", "d" >>

\* A stream error: its variant, its message, and whether it is protocol
\* noise (a heartbeat or an unknown subscription id) or not.
DataError(variant, message, noise) ==
    [variant |-> variant, message |-> message, noise |-> noise]

\* format!("{:?}", error) of a tuple variant holding a String.
format_debug(error) ==
    error.variant \o << "(", "\"" >> \o error.message \o << "\"", ")" >>

\* The reconnecting stream of an exchange as the specification describes
\* it: Streaming <-> Backoff -> Connecting -> Subscribing -> Streaming.  It
\* yields Item(event), Reconnecting(exchange_id) or an error.
Supervisor_new == [state |-> "Streaming", pending |-> << >>, log |-> << >>]

Event_Item(exchange_id, base, quote, kind) ==
    [kind |-> "Item", exchange_id |-> exchange_id, base |-> base,
     quote |-> quote, instrument_kind |-> kind]
Event_Reconnecting(exchange_id) ==
    [kind |-> "Reconnecting", exchange_id |-> exchange_id]
Event_Err(error) == [kind |-> "Err", error |-> error]

\* The stream yields once the loop has polled for what it yielded before.
supervisor_yield(sv, event) ==
    [sv EXCEPT !.pending = Append(@, event), !.log = Append(@, event.kind)]

\* Streaming: the transport delivers a trade or an error.
supervisor_streaming(event) ==
    /\ supervisor.state = "Streaming"
    /\ supervisor.pending = << >>
    /\ supervisor' = supervisor_yield(supervisor, event)

\* Streaming -> Backoff: the transport is lost and Reconnecting is yielded.
supervisor_disconnected(exchange_id) ==
    /\ supervisor.state = "Streaming"
    /\ supervisor.pending = << >>
    /\ supervisor' =
          [supervisor_yield(supervisor, Event_Reconnecting(exchange_id))
             EXCEPT !.state = "Backoff"]

\* Backoff -> Connecting -> Subscribing -> Streaming, or back to Backoff
\* when the connection fails; nothing is yielded on the way.
supervisor_reconnect(connected) ==
    /\ supervisor.state \in {"Backoff", "Connecting", "Subscribing"}
    /\ supervisor' =
          CASE supervisor.state = "Backoff"
                 -> [supervisor EXCEPT !.state = "Connecting"]
            [] supervisor.state = "Connecting" /\ connected
                 -> [supervisor EXCEPT !.state = "Subscribing"]
            [] supervisor.state = "Connecting" /\ ~ connected
                 -> [supervisor EXCEPT !.state = "Backoff",
                                       !.log = Append(@, "ConnectFailed")]
            [] supervisor.state = "Subscribing"
                 -> [supervisor EXCEPT !.state = "Streaming",
                                       !.log = Append(@, "Reconnected")]

\* The loop of main, before its first turn.
MainLoop_new == [state |-> "running", consumed |-> << >>]

\* The exchange name the Item arm takes from the Debug text of the event.
exchange_of(exchange_id) ==
    CASE exchange_id = "BinanceSpot" -> "Binance"
      [] exchange_id = "BinanceFuturesUsd" -> "Binance"
      [] exchange_id = "Okx" -> "OKX"
      [] exchange_id = "BybitSpot" -> "Bybit"
      [] OTHER -> "Unknown"

\* format!("{}/{}", base, quote).to_uppercase() of the instruments of main.
symbol_of(base, quote) ==
    CASE base = "btc" /\ quote = "usdt" -> "BTC/USDT"
      [] base = "eth" /\ quote = "usdt" -> "ETH/USDT"

market_type_of(kind) ==
    CASE kind = "Spot" -> "Spot"
      [] kind = "Perpetual" -> "Futures"
      [] OTHER -> "Unknown"

\* A loop that leaves on Reconnecting.
match_event_breaks(loop, event) ==
    [state |-> IF event.kind = "Reconnecting" THEN "stopped" ELSE loop.state,
     consumed |-> Append(loop.consumed, event.kind)]

\* What the match on an event leaves of the loop: neither arm breaks.
match_event(loop, event) ==
    [loop EXCEPT !.consumed = Append(@, event.kind)]

\* One turn of the loop in which joined_stream.next() is ready.  An error
\* goes to the error handler, which formats it and spawns handle_error; an
\* Item goes to process_trade with the price and amount of its trade; a
\* Reconnecting is logged.
main_loop_next(price, volume, dt) ==
    LET polled == Head(supervisor.pending)
    IN  /\ main_loop.state = "running"
        /\ supervisor.pending # << >>
        /\ supervisor' = [supervisor EXCEPT !.pending = Tail(@)]
        /\ error_tasks' =
              IF polled.kind = "Err"
              THEN Append(error_tasks,
                          [error_msg |-> format_debug(polled.error),
                           error |-> polled.error])
              ELSE error_tasks
        /\ main_loop' = IF polled.kind = "Err" THEN main_loop
                        ELSE match_event(main_loop, polled)
        /\ IF polled.kind = "Item"
           THEN MonitoringSystem_process_trade(
                    exchange_of(polled.exchange_id),
                    symbol_of(polled.base, polled.quote),
                    market_type_of(polled.instrument_kind),
                    price, volume, dt)
           ELSE UNCHANGED << program, auxVars, detVars, anVars, monVars, spikes,
                             regVars, engVars, testVars, startVars >>
        /\ UNCHANGED << error_counters, handled >>

\* The timeout arm of the select: the loop breaks.
main_loop_timeout ==
    /\ main_loop.state = "running"
    /\ main_loop' = [main_loop EXCEPT !.state = "timed_out"]
    /\ UNCHANGED << program, auxVars, detVars, anVars, monVars, spikes, regVars,
                    engVars, testVars, startVars, supervisor, error_tasks,
                    error_counters, handled >>

\* MonitoringSystem::handle_error on the counters.
handle_error(counters, error_msg) ==
    IF \/ contains(error_msg, Text_pong)
       \/ contains(error_msg, Text_ping)
       \/ contains(error_msg, Text_subscription_id)
    THEN [counters EXCEPT !.filtered_errors = @ + 1]
    ELSE [counters EXCEPT !.error_count = @ + 1]

\* One of the spawned handle_error tasks runs, in whatever order the
\* runtime schedules them.
handle_error_task(i) ==
    /\ i \in DOMAIN error_tasks
    /\ error_counters' = handle_error(error_counters, error_tasks[i].error_msg)
    /\ handled' = Append(handled, error_tasks[i].error)
    /\ error_tasks' = [j \in 1..(Len(error_tasks) - 1) |->
                         IF j < i THEN error_tasks[j] ELSE error_tasks[j + 1]]
    /\ UNCHANGED << program, auxVars, detVars, anVars, monVars, spikes, regVars,
                    engVars, testVars, startVars, supervisor, main_loop >>

\* ------------------------------------------------------ test_all_exchanges
\* ExchangeStats::new, with the order in which trades were applied.
ExchangeStats_new ==
    [trades_count |-> 0, last_price |-> None, total_volume |-> 0,
     applied |-> << >>]

\* joined_stream.next() yields the next trade of the instrument and the
\* loop spawns process_event for it.
test_spawn(price) ==
    /\ spawned' = spawned \cup
          {[seq |-> Cardinality(spawned) + stats.trades_count + 1,
            price |-> price]}
    /\ UNCHANGED << program, auxVars, detVars, anVars, monVars, spikes, regVars,
                    engVars, stats, startVars, loopVars >>

\* A spawned process_event runs: it takes the stats lock and updates the
\* ExchangeStats of the key of its event, a trade of quantity 1.
test_process_event(event) ==
    /\ event \in spawned
    /\ spawned' = spawned \ {event}
    /\ stats' = [trades_count |-> stats.trades_count + 1,
                 last_price |-> Some(event.price),
                 total_volume |-> stats.total_volume + 1,
                 applied |-> Append(stats.applied, event.seq)]
    /\ UNCHANGED << program, auxVars, detVars, anVars, monVars, spikes, regVars,
                    engVars, startVars, loopVars >>

\* ------------------------------------------------------------- the runs
\* Sample values and event timestamps (ms) of the generic runs.
SampleValues == {0, 1, 4}
Timestamps == {0, 1000, 3000}

\* Configurations of the generic runs: thresholds low enough for a window
\* of at most MaxSize samples to reach them; a capacity of 0, a capacity
\* below, at and above min_samples.
GenericConfigs ==
    { << VolumeAnomalyConfig(1, 50, w, m), PriceAnomalyConfig(100, 1, w, m) >> :
        w \in {0, 2, MaxSize}, m \in {2, MaxSize} }

InitDetectors(vc, pc) ==
    /\ volume_config = vc
    /\ price_config = pc
    /\ vol_window = TimeSeriesWindow_new(vc.window_size)
    /\ price_window = TimeSeriesWindow_new(pc.window_size)
    /\ det_last_price = None
    /\ fed = << >>
    /\ vol_result = None
    /\ price_result = None
    /\ emitted = << >>

\* MarketAnalyzer::new: empty histories, no metrics window yet.
InitAnalyzer ==
    /\ price_history = << >>
    /\ volume_history = << >>
    /\ metrics = [k \in {"price", "volume"} |-> None]
    /\ an_result = [unusual_volume |-> None, price_manipulation |-> None,
                    flash_crash |-> None, pump_dump |-> None]
    /\ an_fired = 0

\* The improved demo: MonitoringSystem::new(config), the SymbolMonitor of
\* the symbol as SymbolMonitor::new(symbol, config) makes it.
InitMonitorWith(config) ==
    /\ mon_config = config
    /\ monitor = SymbolMonitor_new(config)
    /\ now = 0
    /\ mon_alert = None
    /\ mon_alert_times = << >>

\* The components a run does not drive stay as constructed.
IdleDetectors ==
    InitDetectors(VolumeAnomalyConfig_default, PriceAnomalyConfig_default)

IdleMonitor == InitMonitorWith(MonitorConfig_default)

\* The exchanges with a stream task in the engine runs.
EngineExchanges == {"binance", "okx"}

\* The components a run does not drive stay as constructed: the
\* registries empty; nothing yielded, queued or sent and every task of the
\* engine running; nothing spawned by the test; no topic, no producer and
\* start not called.
IdleRegistries ==
    /\ detectors = << >>
    /\ handle = None
    /\ monitors = << >>
    /\ observed = << >>

IdleEngine ==
    /\ produced = [e \in EngineExchanges |-> 0]
    /\ event_queue = << >>
    /\ in_flight = None
    /\ bus_log = << >>
    /\ tasks = [engine |-> "running",
                streams |-> [e \in EngineExchanges |-> "running"]]

IdleTest ==
    /\ spawned = {}
    /\ stats = ExchangeStats_new

IdleStart ==
    /\ cluster_topics = {}
    /\ producers = << >>
    /\ start_state = StartState_new

IdleLoop ==
    /\ supervisor = Supervisor_new
    /\ main_loop = MainLoop_new
    /\ error_tasks = << >>
    /\ error_counters = [filtered_errors |-> 0, error_count |-> 0]
    /\ handled = << >>

IdleStatistics ==
    /\ stat_input = << >>
    /\ stat_result = NotCalled

IdleServices == trader = None /\ ws = None /\ notifier = None /\ msys = None
IdleAux == IdleStatistics /\ reset_at = 0 /\ twin = None /\ IdleServices

IdleSystem ==
    /\ IdleRegistries /\ IdleEngine /\ IdleTest /\ IdleStart /\ IdleLoop
    /\ IdleAux

\* The monitor application: AnomalyDetectorManager::new(volume, price).
InitManager ==
    /\ program = "manager"
    /\ \E c \in GenericConfigs : InitDetectors(c[1], c[2])
    /\ InitAnalyzer
    /\ IdleMonitor
    /\ spikes = 0
    /\ IdleSystem

ManagerStep ==
    /\ program = "manager"
    /\ Len(fed) < MaxPushes
    /\ \E v \in SampleValues, ts \in Timestamps :
          process_data(TimeSeriesData(ts, v))

\* ------------------------------------------------ the scripted scenarios
\* S1: the volumes [1]*30, 1, v at t = 0..31 s into a volume detector with
\* the default configuration; the spec's scenario has v = 20.
\* The same calls with samples whose value may be NaN, one per second.
NonFiniteValues == {1, 4, NaN}

InitNonFinite ==
    /\ program = "nonfinite"
    /\ \E c \in GenericConfigs : InitDetectors(c[1], c[2])
    /\ InitAnalyzer
    /\ IdleMonitor
    /\ spikes = 0
    /\ IdleSystem

NonFiniteStep ==
    /\ program = "nonfinite"
    /\ Len(fed) < MaxPushes
    /\ \E v \in NonFiniteValues :
          process_data(TimeSeriesData(Len(fed) * 1000, v))

S1Finals == 1..20
S1Volume(v) == [i \in 1..32 |-> IF i < 32 THEN 1 ELSE v]
S1Len == Len(S1Volume(20))

\* S2: thirty times the price 30000 and then a price p into a price
\* detector with the default configuration; the spec's scenario has
\* p = 31800.  Prices are in units of 100, which changes no percentage and
\* no z-score.
S2Finals == 270..330
S2Price(p) == [i \in 1..31 |-> IF i < 31 THEN 300 ELSE p]
S2Len == Len(S2Price(318))

InitS1 ==
    /\ program = "volume_detector"
    /\ InitDetectors(VolumeAnomalyConfig_default, PriceAnomalyConfig_default)
    /\ InitAnalyzer
    /\ IdleMonitor
    /\ spikes = 0
    /\ IdleSystem

InitS2 ==
    /\ program = "price_detector"
    /\ InitDetectors(VolumeAnomalyConfig_default, PriceAnomalyConfig_default)
    /\ InitAnalyzer
    /\ IdleMonitor
    /\ spikes = 0
    /\ IdleSystem

\* S4: twenty prices rising from 100 to a peak of 140 at i = 10 and falling
\* to 110, into a MarketAnalyzer.
S4Prices == << 100, 104, 108, 112, 116, 120, 124, 128, 132, 136, 140,
               137, 134, 131, 128, 125, 122, 119, 116, 110 >>

\* Prices and volumes of the analyzer runs.  A flash crash needs a drop of
\* 10% over five prices: 90 is the drop of exactly 10%, 85 a larger one.
FlashPrices == {100, 90, 85}
\* A pump and dump needs twenty prices: the baseline 100; 120 is the pump
\* of exactly 20%, 140 a larger one, and 119 after 140 the dump of exactly
\* 15%.
BasePrice == CHOOSE p \in FlashPrices : \A q \in FlashPrices : q <= p
PumpPrices == {BasePrice, 119, 120, 140}
AnalyzerVolumes == {1}

InitFlash ==
    /\ program = "analyzer"
    /\ IdleDetectors
    /\ InitAnalyzer
    /\ IdleMonitor
    /\ spikes = 0
    /\ IdleSystem

InitPump ==
    /\ program \in {"analyzer_flat", "analyzer_s4"}
    /\ IdleDetectors
    /\ InitAnalyzer
    /\ IdleMonitor
    /\ spikes = 0
    /\ IdleSystem

\* Prices, volumes and configurations of the runs of the improved demo.
\* An alert needs 21 samples in the window it looks at, since below that
\* the "95th percentile" is the largest sample; the window of
\* MonMaxTrades - 1 evicts on the last call of a run, and with
\* MonMaxTrades min_samples the checks start on the last call.  A price
\* threshold of 150 is above every change of these prices.
MonPrices == {100, 200}
MonVolumes == {1, 250}
MonBaseVolume == CHOOSE v \in MonVolumes : \A u \in MonVolumes : v <= u
MonTicks == {1000}
MonConfigs ==
    { MonitorConfig_default,
      MonitorConfig(3, 5, 20, 200, MonMaxTrades, TRUE),
      MonitorConfig(3, 5, 20, MonMaxTrades - 1, 1, TRUE),
      MonitorConfig(3, 5, 20, MonMaxTrades - 1, 1, FALSE),
      MonitorConfig(150, 5, 20, MonMaxTrades - 1, 1, TRUE) }

InitMonitor ==
    /\ program = "monitor"
    /\ IdleDetectors
    /\ InitAnalyzer
    /\ \E c \in MonConfigs : InitMonitorWith(c)
    /\ spikes = 0
    /\ IdleSystem

\* A trade every 1000 ms; the price of the previous trade and the base
\* volume on every call but for at most MonMaxSpikes changes.
MonitorStep ==
    /\ program = "monitor"
    /\ monitor.trade_count < MonMaxTrades
    /\ \E price \in MonPrices, volume \in MonVolumes, dt \in MonTicks :
          /\ spikes' = spikes
                + (IF monitor.trade_count > 0 /\ price # monitor.last_price
                   THEN 1 ELSE 0)
                + (IF volume # MonBaseVolume THEN 1 ELSE 0)
          /\ spikes' <= MonMaxSpikes
          /\ process_trade(price, volume, dt)

\* Any price of FlashPrices on every call.
AnalyzerStep ==
    /\ program = "analyzer"
    /\ Len(price_history) < FlashMaxTrades
    /\ \E price \in FlashPrices, volume \in AnalyzerVolumes :
          analyze_market_data(price, volume)
    /\ UNCHANGED spikes

\* The baseline price on every call but at most MaxSpikes of them.
AnalyzerFlatStep ==
    /\ program = "analyzer_flat"
    /\ Len(price_history) < PumpMaxTrades
    /\ \E price \in PumpPrices, volume \in AnalyzerVolumes :
          /\ spikes' = spikes + (IF price = BasePrice THEN 0 ELSE 1)
          /\ spikes' <= MaxSpikes
          /\ analyze_market_data(price, volume)

\* The next price of scenario S4.
AnalyzerS4Step ==
    /\ program = "analyzer_s4"
    /\ Len(price_history) < Len(S4Prices)
    /\ \E volume \in AnalyzerVolumes :
          analyze_market_data(S4Prices[Len(price_history) + 1], volume)
    /\ UNCHANGED spikes

\* The analyzer on a feed whose price may be zero: a large opening volume
\* or the usual one, the usual volume on every later trade.
ZeroPrices == {0, BasePrice}
OpeningVolumes == AnalyzerVolumes \cup {BasePrice}

InitZero ==
    /\ program = "analyzer_zero"
    /\ IdleDetectors
    /\ InitAnalyzer
    /\ IdleMonitor
    /\ spikes = 0
    /\ IdleSystem

AnalyzerZeroStep ==
    /\ program = "analyzer_zero"
    /\ Len(price_history) < ZeroMaxTrades
    /\ \E price \in ZeroPrices,
          volume \in (IF price_history = << >> THEN OpeningVolumes
                      ELSE AnalyzerVolumes) :
          analyze_market_data(price, volume)
    /\ UNCHANGED spikes

\* The engine with a stream task per exchange, each handed streams that
\* keep yielding trades, and a bus that may fail any send; stop() is
\* never called.
RECURSIVE SumOver(_, _)
SumOver(f, S) ==
    IF S = {} THEN 0
    ELSE LET x == CHOOSE y \in S : TRUE IN f[x] + SumOver(f, S \ {x})

EnginePrograms == {"engine", "engine_stop"}

InitEngine ==
    /\ program = "engine"
    /\ IdleDetectors
    /\ InitAnalyzer
    /\ IdleMonitor
    /\ spikes = 0
    /\ IdleSystem

EngineStreamStep ==
    /\ program \in EnginePrograms
    /\ SumOver(produced, EngineExchanges) < EngineMaxEvents
    /\ \E exchange \in EngineExchanges : stream_next(exchange)

EngineRecvStep ==
    /\ program \in EnginePrograms
    /\ \E serialized \in BOOLEAN : engine_recv(serialized)

EngineSendStep ==
    /\ program \in EnginePrograms
    /\ \E sent \in BOOLEAN, partition \in 0..(Partitions - 1) :
          engine_send_done(sent, partition)

\* The engine of a run in which main calls stop() at some point.
InitEngineStop ==
    /\ program = "engine_stop"
    /\ IdleDetectors
    /\ InitAnalyzer
    /\ IdleMonitor
    /\ spikes = 0
    /\ IdleSystem

EngineStopStep ==
    /\ program = "engine_stop"
    /\ engine_stop

\* start() on a cluster on which any of the topics may exist already.
\* admin.create answers Ok only for a topic that does not exist, and with
\* the already-exists error only for one that does.
InitStart ==
    /\ program = "engine_start"
    /\ IdleDetectors
    /\ InitAnalyzer
    /\ IdleMonitor
    /\ spikes = 0
    /\ IdleRegistries
    /\ IdleEngine
    /\ IdleTest
    /\ cluster_topics \in SUBSET {EngineTopics[i] : i \in DOMAIN EngineTopics}
    /\ producers = << >>
    /\ start_state = StartState_new
    /\ IdleLoop
    /\ IdleAux

StartTopicStep ==
    /\ program = "engine_start"
    /\ start_state.next <= Len(EngineTopics)
    /\ \E err \in {None, Some(ErrAlreadyExists), Some(ErrOther)},
          producer_ok \in BOOLEAN :
          /\ err = None => EngineTopics[start_state.next] \notin cluster_topics
          /\ err = Some(ErrAlreadyExists)
                => EngineTopics[start_state.next] \in cluster_topics
          /\ initialize_topics_step([err |-> err], producer_ok)

StartRestStep ==
    /\ program = "engine_start"
    /\ start_rest

\* test_all_exchanges on one instrument: the prices of its trades.
TestPrices == {1, 4}

InitTest ==
    /\ program = "test_all_exchanges"
    /\ IdleDetectors
    /\ InitAnalyzer
    /\ IdleMonitor
    /\ spikes = 0
    /\ IdleSystem

TestSpawnStep ==
    /\ program = "test_all_exchanges"
    /\ Cardinality(spawned) + stats.trades_count < TestMaxEvents
    /\ \E price \in TestPrices : test_spawn(price)

TestProcessStep ==
    /\ program = "test_all_exchanges"
    /\ \E event \in spawned : test_process_event(event)

\* The next sample of a script: the k-th sample arrives at t = k-1 seconds.
VolumeDetectorStep ==
    /\ program = "volume_detector"
    /\ Len(fed) < S1Len
    /\ \E v \in S1Finals :
          volume_detect(TimeSeriesData(Len(fed) * 1000,
                                       S1Volume(v)[Len(fed) + 1]))

PriceDetectorStep ==
    /\ program = "price_detector"
    /\ Len(fed) < S2Len
    /\ \E p \in S2Finals :
          price_detect(TimeSeriesData(Len(fed) * 1000,
                                      S2Price(p)[Len(fed) + 1]))

\* ------------------------------------------------- runs of the registries
\* Exchanges and symbols as token sequences, trades whose price is never
\* their quantity, and a configuration a window of two samples satisfies.
AppExchanges == { << "binance" >>, << "okx" >> }
AppSymbols == { << "BTC", "/", "USDT" >> }
AppPrices == {1, 4}
AppVolumes == {2}
AppVolumeConfig == VolumeAnomalyConfig(1, 50, MaxSize, 2)
AppPriceConfig == PriceAnomalyConfig(100, 1, MaxSize, 2)

InitApp ==
    /\ program = "app"
    /\ InitDetectors(AppVolumeConfig, AppPriceConfig)
    /\ InitAnalyzer
    /\ IdleMonitor
    /\ spikes = 0
    /\ IdleSystem

\* A trade event reaches process_single_event.
AppEventStep ==
    /\ program = "app"
    /\ Len(observed) < AppMaxEvents
    /\ \E exchange \in AppExchanges, symbol \in AppSymbols,
          price \in AppPrices, volume \in AppVolumes :
          process_single_event([exchange |-> exchange, symbol |-> symbol,
                                price |-> price, volume |-> volume,
                                timestamp |-> Len(observed) * 1000])

\* A caller asks the manager for the detector of a key.
AppGetStep ==
    /\ program = "app"
    /\ \E exchange \in AppExchanges, symbol \in AppSymbols :
          get_or_create_detector(symbol, exchange)

\* The caller feeds a trade to the detector it was given.
AppHandleStep ==
    /\ program = "app"
    /\ Len(observed) < AppMaxEvents
    /\ IsSome(handle)
    /\ \E price \in AppPrices, volume \in AppVolumes :
          handle_detect_all(TimeSeriesData(Len(observed) * 1000, price),
                            volume)

\* A caller resets the detector of a key.
AppResetStep ==
    /\ program = "app"
    /\ Len(observed) < AppMaxEvents
    /\ \E exchange \in AppExchanges, symbol \in AppSymbols :
          Manager_reset(symbol, exchange)

\* The improved demo with several instruments: every exchange, symbol and
\* market type, one price and one volume.
DemoExchanges == {"Binance", "OKX"}
DemoSymbols == {"BTC/USDT", "ETH/USDT"}
DemoMarketTypes == {"Spot", "Futures"}
MonBasePrice == CHOOSE p \in MonPrices : \A q \in MonPrices : p <= q

InitDemoRegistry ==
    /\ program = "demo_registry"
    /\ IdleDetectors
    /\ InitAnalyzer
    /\ IdleMonitor
    /\ spikes = 0
    /\ IdleSystem

DemoRegistryStep ==
    /\ program = "demo_registry"
    /\ Len(observed) < DemoMaxTrades
    /\ \E exchange \in DemoExchanges, symbol \in DemoSymbols,
          market_type \in DemoMarketTypes, dt \in MonTicks :
          MonitoringSystem_process_trade(exchange, symbol, market_type,
                                         MonBasePrice, MonBaseVolume, dt)
    /\ UNCHANGED loopVars

\* The improved demo's loop on one exchange stream that delivers trades
\* and errors and loses its transport at any point.
LoopPrice == MonBasePrice
LoopVolume == MonBaseVolume
LoopExchange == "BinanceSpot"
Chars_Socket == << "S", "o", "c", "k", "e", "t" >>
LoopErrors ==
    { DataError(Chars_Socket, Text_pong, TRUE),
      DataError(Chars_Socket, << "c", "l", "o", "s", "e", "d" >>, FALSE),
      DataError(Chars_Socket,
                << "s", "t", "o", "p", "p", "i", "n", "g" >>, FALSE) }

InitLoop ==
    /\ program = "demo_loop"
    /\ IdleDetectors
    /\ InitAnalyzer
    /\ IdleMonitor
    /\ spikes = 0
    /\ IdleSystem

LoopOthers ==
    << program, auxVars, detVars, anVars, monVars, spikes, regVars, engVars,
       testVars, startVars, main_loop, error_tasks, error_counters, handled >>

LoopStreamStep ==
    /\ program = "demo_loop"
    /\ Len(supervisor.log) < LoopMaxEvents
    /\ \E event \in {Event_Item(LoopExchange, "btc", "usdt", "Spot")}
                       \cup {Event_Err(e) : e \in LoopErrors} :
          supervisor_streaming(event)
    /\ UNCHANGED LoopOthers

LoopDisconnectStep ==
    /\ program = "demo_loop"
    /\ Len(supervisor.log) < LoopMaxEvents
    /\ supervisor_disconnected(LoopExchange)
    /\ UNCHANGED LoopOthers

LoopReconnectStep ==
    /\ program = "demo_loop"
    /\ Len(supervisor.log) < LoopMaxEvents
    /\ \E connected \in BOOLEAN : supervisor_reconnect(connected)
    /\ UNCHANGED LoopOthers

LoopNextStep ==
    /\ program = "demo_loop"
    /\ \E dt \in MonTicks : main_loop_next(LoopPrice, LoopVolume, dt)

LoopTimeoutStep ==
    /\ program = "demo_loop"
    /\ main_loop_timeout

LoopErrorTaskStep ==
    /\ program = "demo_loop"
    /\ \E i \in DOMAIN error_tasks : handle_error_task(i)

NextLoop ==
    \/ LoopStreamStep \/ LoopDisconnectStep \/ LoopReconnectStep
    \/ LoopNextStep \/ LoopTimeoutStep \/ LoopErrorTaskStep

SpecLoop == InitLoop /\ [][NextLoop]_vars

\* The first demo on windows of 0, 2 and 10 trades: the base price and
\* volume on every trade but for at most MaxSpikes changes.
Demo1Volumes == {MonBaseVolume, 4}
Demo1Configs ==
    { Demo_MonitorConfig(2, 3, w) : w \in {0, 2, 10} }

InitDemo1 ==
    /\ program = "monitor_demo"
    /\ IdleDetectors
    /\ InitAnalyzer
    /\ \E c \in Demo1Configs : mon_config = c
    /\ monitor = Demo_SymbolMonitor_new
    /\ now = 0
    /\ mon_alert = None
    /\ mon_alert_times = << >>
    /\ spikes = 0
    /\ IdleSystem

Demo1Step ==
    /\ program = "monitor_demo"
    /\ monitor.trade_count < Demo1MaxTrades
    /\ \E price \in MonPrices, volume \in Demo1Volumes :
          /\ spikes' = spikes
                + (IF monitor.trade_count > 0 /\ price # monitor.last_price
                   THEN 1 ELSE 0)
                + (IF volume # MonBaseVolume THEN 1 ELSE 0)
          /\ spikes' <= MaxSpikes
          /\ Demo_process_trade(price, volume)

SpecDemo1 == InitDemo1 /\ [][Demo1Step]_vars

\* The improved demo on a window of MaxSize trades with volumes that may
\* be 0 and a cap below 3.5 times the base multiplier, with and without
\* dynamic thresholds.
SmallVolumes == {0, MonBaseVolume, 4}
SmallConfigs == { MonitorConfig(3, 5, 10, MaxSize, 1, dyn) : dyn \in BOOLEAN }

InitSmall ==
    /\ program = "monitor_small"
    /\ IdleDetectors
    /\ InitAnalyzer
    /\ \E c \in SmallConfigs : InitMonitorWith(c)
    /\ spikes = 0
    /\ IdleSystem

SmallStep ==
    /\ program = "monitor_small"
    /\ monitor.trade_count < MaxPushes
    /\ \E price \in MonPrices, volume \in SmallVolumes, dt \in MonTicks :
          process_trade(price, volume, dt)
    /\ UNCHANGED spikes

InitVolumeThreshold == InitMonitor \/ InitSmall

NextVolumeThreshold == MonitorStep \/ SmallStep

SpecVolumeThreshold == InitVolumeThreshold /\ [][NextVolumeThreshold]_vars

\* The improved demo on MonMaxTrades trades of which all but the last two
\* have the base price and volume, so that both checks can fire on one
\* trade and the trade after an alert is suppressed.
InitBurst ==
    /\ program = "monitor_burst"
    /\ IdleDetectors
    /\ InitAnalyzer
    /\ \E c \in MonConfigs : InitMonitorWith(c)
    /\ spikes = 0
    /\ IdleSystem

BurstStep ==
    /\ program = "monitor_burst"
    /\ monitor.trade_count < MonMaxTrades
    /\ \E price \in MonPrices, volume \in MonVolumes, dt \in MonTicks :
          /\ monitor.trade_count < MonMaxTrades - 2
                => (price = MonBasePrice /\ volume = MonBaseVolume)
          /\ process_trade(price, volume, dt)
    /\ UNCHANGED spikes

InitAlerts == InitBurst \/ InitDemo1

NextAlerts == BurstStep \/ Demo1Step

SpecAlerts == InitAlerts /\ [][NextAlerts]_vars

\* Statistics::calculate on slices of up to StatMaxLen values: the value 1
\* but at up to two positions, where the value is 0 or 2.
StatValues == {0, 2}
StatSlices ==
    { [i \in 1..n |-> IF i = a THEN x ELSE IF i = b THEN y ELSE 1] :
        n \in 0..StatMaxLen, a \in 0..StatMaxLen, b \in 0..StatMaxLen,
        x \in StatValues, y \in StatValues }

InitStatistics ==
    /\ program = "statistics"
    /\ IdleDetectors
    /\ InitAnalyzer
    /\ IdleMonitor
    /\ spikes = 0
    /\ IdleRegistries /\ IdleEngine /\ IdleTest /\ IdleStart /\ IdleLoop
    /\ stat_input \in StatSlices
    /\ stat_result = NotCalled
    /\ reset_at = 0
    /\ twin = None
    /\ IdleServices

StatisticsStep ==
    /\ program = "statistics"
    /\ Statistics_call

SpecStatistics == InitStatistics /\ [][StatisticsStep]_vars

\* The detectors of a key fed a sample per second, with reset called at
\* any point between two samples.
InitReset ==
    /\ program = "reset"
    /\ \E c \in GenericConfigs : InitDetectors(c[1], c[2])
    /\ InitAnalyzer
    /\ IdleMonitor
    /\ spikes = 0
    /\ IdleSystem

ResetFeedStep ==
    /\ program = "reset"
    /\ Len(fed) < MaxPushes
    /\ \E v \in SampleValues : process_data(TimeSeriesData(Len(fed) * 1000, v))

ResetStep ==
    /\ program = "reset"
    /\ reset_at < Len(fed)
    /\ reset_detectors

NextReset == ResetFeedStep \/ ResetStep

SpecReset == InitReset /\ [][NextReset]_vars

\* Two monitors of the improved demo, each in a process of its own, fed
\* the same trades; each call reads the clock of its own process, and the
\* two clocks advance independently on the last trades of a run.
TwinTicks == {1000, 3000}

InitTwin ==
    /\ program = "monitor_twin"
    /\ IdleDetectors
    /\ InitAnalyzer
    /\ \E c \in MonConfigs : InitMonitorWith(c)
    /\ spikes = 0
    /\ IdleRegistries /\ IdleEngine /\ IdleTest /\ IdleStart /\ IdleLoop
    /\ IdleStatistics
    /\ reset_at = 0
    /\ twin = [monitor |-> monitor, now |-> 0, alert |-> None]
    /\ IdleServices

TwinStep ==
    /\ program = "monitor_twin"
    /\ monitor.trade_count < MonMaxTrades
    /\ \E price \in MonPrices, volume \in MonVolumes,
          dt \in TwinTicks, twin_dt \in TwinTicks :
          /\ monitor.trade_count < MonMaxTrades - 2
                => /\ price = MonBasePrice /\ volume = MonBaseVolume
                   /\ dt = 1000 /\ twin_dt = 1000
          /\ LET r == SymbolMonitor_add_data_point(
                          monitor, [price |-> price, volume |-> volume],
                          mon_config, now + dt)
                 q == SymbolMonitor_add_data_point(
                          twin.monitor, [price |-> price, volume |-> volume],
                          mon_config, twin.now + twin_dt)
             IN  /\ now' = now + dt
                 /\ monitor' = r.monitor
                 /\ mon_alert' = r.alert
                 /\ mon_alert_times' = IF IsSome(r.alert)
                                       THEN Append(mon_alert_times, now + dt)
                                       ELSE mon_alert_times
                 /\ twin' = [monitor |-> q.monitor, now |-> twin.now + twin_dt,
                             alert |-> q.alert]
    /\ UNCHANGED << program, mon_config, detVars, anVars, spikes, regVars,
                    engVars, testVars, startVars, loopVars, stat_input,
                    stat_result, reset_at, svcVars >>

SpecTwin == InitTwin /\ [][TwinStep]_vars

\* The AutoTrader with a task that executes signals and a task that
\* updates the position with the prices of the trades.
TraderPrices == {90, 100, 110}
TraderSignals ==
    [signal_type : {"Buy", "Sell", "Hold"}, price : {100}]
OrderOutcomes == {"order", "none", "err"}

InitTrader ==
    /\ program = "trader"
    /\ IdleDetectors
    /\ InitAnalyzer
    /\ IdleMonitor
    /\ spikes = 0
    /\ IdleRegistries /\ IdleEngine /\ IdleTest /\ IdleStart /\ IdleLoop
    /\ IdleStatistics
    /\ reset_at = 0
    /\ twin = None
    /\ trader = AutoTrader_new
    /\ ws = None /\ notifier = None /\ msys = None

TraderOthers ==
    << program, detVars, anVars, monVars, spikes, regVars, engVars, testVars,
       startVars, loopVars, stat_input, stat_result, reset_at, twin, ws,
       notifier, msys >>

TraderSignalStep ==
    /\ program = "trader"
    /\ trader.events < TraderMaxEvents
    /\ ~IsSome(trader.pending)
    /\ \E signal \in TraderSignals, valid \in BOOLEAN,
          outcome \in OrderOutcomes :
          trader' = execute_signal(trader, signal, valid, outcome)
    /\ UNCHANGED TraderOthers

TraderCreateStep ==
    /\ program = "trader"
    /\ IsSome(trader.pending)
    /\ ~IsSome(trader.guard)
    /\ trader' = create_position(trader)
    /\ UNCHANGED TraderOthers

TraderUpdateStep ==
    /\ program = "trader"
    /\ trader.events < TraderMaxEvents
    /\ trader.update = "idle"
    /\ \E price \in TraderPrices : trader' = update_positions(trader, price)
    /\ UNCHANGED TraderOthers

TraderCloseStep ==
    /\ program = "trader"
    /\ trader.update = "close_position"
    /\ \E outcome \in OrderOutcomes : trader' = close_position(trader, outcome)
    /\ UNCHANGED TraderOthers

NextTrader ==
    TraderSignalStep \/ TraderCreateStep \/ TraderUpdateStep
        \/ TraderCloseStep

SpecTrader == InitTrader /\ [][NextTrader]_vars

\* One WebSocket client: its messages, the end of its connection, and the
\* broadcasts of the application.
WsChannels == {"anomalies", "alerts"}
WsMessages ==
    [msg_type : {"Subscribe", "Unsubscribe"}, channel : WsChannels]
        \cup [msg_type : {"Heartbeat", "Close"}, channel : {"all"}]

InitWs ==
    /\ program = "websocket"
    /\ IdleDetectors
    /\ InitAnalyzer
    /\ IdleMonitor
    /\ spikes = 0
    /\ IdleRegistries /\ IdleEngine /\ IdleTest /\ IdleStart /\ IdleLoop
    /\ IdleStatistics
    /\ reset_at = 0
    /\ twin = None
    /\ ws = handle_socket_start
    /\ trader = None /\ notifier = None /\ msys = None

WsOthers ==
    << program, detVars, anVars, monVars, spikes, regVars, engVars, testVars,
       startVars, loopVars, stat_input, stat_result, reset_at, twin, trader,
       notifier, msys >>

WsReceiveStep ==
    /\ program = "websocket"
    /\ ws.recv_task = "waiting"
    /\ ~ws.abort_requested
    /\ ws.events < WsMaxEvents
    /\ \E msg \in WsMessages : ws' = recv_task_next(ws, msg)
    /\ UNCHANGED WsOthers

WsHandleStep ==
    /\ program = "websocket"
    /\ ws.recv_task = "handling"
    /\ ws' = recv_task_handle(ws)
    /\ UNCHANGED WsOthers

WsCancelStep ==
    /\ program = "websocket"
    /\ ws.recv_task = "waiting"
    /\ ws.abort_requested
    /\ ws' = recv_task_cancelled(ws)
    /\ UNCHANGED WsOthers

\* sender.send fails: the connection is gone.
WsSendEndStep ==
    /\ program = "websocket"
    /\ ws.send_task = "running"
    /\ ws' = [ws EXCEPT !.send_task = "finished"]
    /\ UNCHANGED WsOthers

WsSelectStep ==
    /\ program = "websocket"
    /\ ws.handler = "select"
    /\ ws.send_task = "finished" \/ ws.recv_task = "finished"
    /\ ws' = handle_socket_select(ws)
    /\ UNCHANGED WsOthers

WsCleanupStep ==
    /\ program = "websocket"
    /\ ws.handler = "cleanup"
    /\ ws' = handle_socket_cleanup(ws)
    /\ UNCHANGED WsOthers

WsBroadcastStep ==
    /\ program = "websocket"
    /\ ws.events < WsMaxEvents
    /\ \E channel \in WsChannels :
          ws' = [ws EXCEPT !.state = broadcast_to_subscribers(@, channel),
                           !.events = @ + 1]
    /\ UNCHANGED WsOthers

NextWs ==
    WsReceiveStep \/ WsHandleStep \/ WsCancelStep \/ WsSendEndStep
        \/ WsSelectStep \/ WsCleanupStep \/ WsBroadcastStep

SpecWs == InitWs /\ [][NextWs]_vars

\* init_notifications adds the telegram channel and then the email
\* channel, each if it is enabled; send_all is called for anomalies.
NotifierChannels == << "telegram", "email" >>

InitNotifier ==
    /\ program = "notifier"
    /\ IdleDetectors
    /\ InitAnalyzer
    /\ IdleMonitor
    /\ spikes = 0
    /\ IdleRegistries /\ IdleEngine /\ IdleTest /\ IdleStart /\ IdleLoop
    /\ IdleStatistics
    /\ reset_at = 0
    /\ twin = None
    /\ notifier = NotificationManager_new
    /\ trader = None /\ ws = None /\ msys = None

NotifierOthers ==
    << program, detVars, anVars, monVars, spikes, regVars, engVars, testVars,
       startVars, loopVars, stat_input, stat_result, reset_at, twin, trader,
       ws, msys >>

NotifierAddStep ==
    /\ program = "notifier"
    /\ \E i \in DOMAIN NotifierChannels :
          /\ \A j \in DOMAIN notifier.added :
                \E k \in 1..(i - 1) : NotifierChannels[k] = notifier.added[j]
          /\ notifier' = add_channel(notifier, NotifierChannels[i])
    /\ UNCHANGED NotifierOthers

NotifierTaskStep ==
    /\ program = "notifier"
    /\ \E channel \in notifier.spawned :
          notifier' = add_channel_task(notifier, channel)
    /\ UNCHANGED NotifierOthers

NotifierSendStep ==
    /\ program = "notifier"
    /\ notifier.calls < NotifierMaxCalls
    /\ notifier' = send_all(notifier)
    /\ UNCHANGED NotifierOthers

NextNotifier == NotifierAddStep \/ NotifierTaskStep \/ NotifierSendStep

SpecNotifier == InitNotifier /\ [][NextNotifier]_vars

\* The MonitoringSystem of the improved demo with the main loop calling
\* process_trade, a spawned handle_error, and the report task.
InitSystem ==
    /\ program = "system"
    /\ IdleDetectors
    /\ InitAnalyzer
    /\ IdleMonitor
    /\ spikes = 0
    /\ IdleRegistries /\ IdleEngine /\ IdleTest /\ IdleStart /\ IdleLoop
    /\ IdleStatistics
    /\ reset_at = 0
    /\ twin = None
    /\ msys = MonitoringSystem_new
    /\ trader = None /\ ws = None /\ notifier = None

SystemOthers ==
    << program, detVars, anVars, monVars, spikes, regVars, engVars, testVars,
       startVars, loopVars, stat_input, stat_result, reset_at, twin, trader,
       ws, notifier >>

Free(l) == ~IsSome(msys.locks[l])

SystemTradeCallStep ==
    /\ program = "system"
    /\ msys.pc.trade = "idle"
    /\ msys.calls.trade < SystemMaxCalls
    /\ \E sym \in SystemSymbols :
          msys' = [msys EXCEPT !.symbol = Some(sym), !.pc.trade = "monitors",
                               !.calls.trade = @ + 1]
    /\ UNCHANGED SystemOthers

SystemTradeMonitorsStep ==
    /\ program = "system"
    /\ msys.pc.trade = "monitors"
    /\ Free("monitors")
    /\ msys' = process_trade_monitors(msys)
    /\ UNCHANGED SystemOthers

SystemTradeTotalStep ==
    /\ program = "system"
    /\ msys.pc.trade = "total_events"
    /\ Free("total_events")
    /\ msys' = process_trade_total(msys)
    /\ UNCHANGED SystemOthers

SystemTradeDoneStep ==
    /\ program = "system"
    /\ msys.pc.trade = "count"
    /\ msys' = process_trade_done(msys)
    /\ UNCHANGED SystemOthers

SystemErrorLockStep ==
    /\ program = "system"
    /\ msys.pc.error = "idle"
    /\ msys.calls.error < SystemMaxCalls
    /\ \E noise \in BOOLEAN :
          /\ Free(IF noise THEN "filtered_errors" ELSE "error_count")
          /\ msys' = [handle_error_lock(msys, noise)
                         EXCEPT !.calls.error = @ + 1]
    /\ UNCHANGED SystemOthers

SystemErrorCountStep ==
    /\ program = "system"
    /\ msys.pc.error \in {"filtered", "errors"}
    /\ msys' = handle_error_count(msys)
    /\ UNCHANGED SystemOthers

SystemReportMonitorsStep ==
    /\ program = "system"
    /\ msys.pc.report = "idle"
    /\ msys.calls.report < SystemMaxCalls
    /\ Free("monitors")
    /\ msys' = [generate_report_monitors(msys) EXCEPT !.calls.report = @ + 1]
    /\ UNCHANGED SystemOthers

SystemReportTotalStep ==
    /\ program = "system"
    /\ msys.pc.report = "total_events"
    /\ Free("total_events")
    /\ msys' = generate_report_total(msys)
    /\ UNCHANGED SystemOthers

SystemReportErrorsStep ==
    /\ program = "system"
    /\ msys.pc.report = "error_count"
    /\ Free("error_count")
    /\ msys' = generate_report_error_count(msys)
    /\ UNCHANGED SystemOthers

SystemReportPrintStep ==
    /\ program = "system"
    /\ msys.pc.report = "filtered_errors"
    /\ Free("filtered_errors")
    /\ msys' = generate_report_print(msys)
    /\ UNCHANGED SystemOthers

NextSystem ==
    \/ SystemTradeCallStep \/ SystemTradeMonitorsStep
    \/ SystemTradeTotalStep \/ SystemTradeDoneStep
    \/ SystemErrorLockStep \/ SystemErrorCountStep
    \/ SystemReportMonitorsStep \/ SystemReportTotalStep
    \/ SystemReportErrorsStep \/ SystemReportPrintStep

SpecSystem == InitSystem /\ [][NextSystem]_vars

\* ============================================================== claims
\* What the claims say is computed from the samples themselves: the values
\* xs of a window, their sum and the sum of their squares.
SumOf(xs) == SumSeq(xs)
SumSqOf(xs) == SumSeq([i \in 1..Len(xs) |-> xs[i] * xs[i]])
\* len^2 times the population variance of xs.
VarNumOf(xs) == Len(xs) * SumSqOf(xs) - SumOf(xs) * SumOf(xs)
\* |z| >= t for z = (v - mean)/std_dev over xs, z = 0 when std_dev = 0.
ClaimZAbsGE(xs, v, t) ==
    IF Len(xs) < 2 \/ VarNumOf(xs) = 0 THEN 0 >= t
    ELSE (Len(xs) * v - SumOf(xs)) * (Len(xs) * v - SumOf(xs))
            >= t * t * VarNumOf(xs)
\* |pct| >= t for pct = (v - mean)/mean * 100 over xs, pct = 0 when mean = 0.
ClaimVolumePctAbsGE(xs, v, t) ==
    IF SumOf(xs) = 0 THEN 0 >= t
    ELSE Abs(Len(xs) * v - SumOf(xs)) * 100 >= t * Abs(SumOf(xs))
\* |pct| >= t for pct = (p - last)/last * 100, pct = 0 when there is no
\* previous sample or it is 0.
ClaimTickPctAbsGE(history, t) ==
    IF Len(history) < 2 \/ history[Len(history) - 1].value = 0 THEN 0 >= t
    ELSE Abs(history[Len(history)].value - history[Len(history) - 1].value) * 100
            >= t * Abs(history[Len(history) - 1].value)

\* C1: after k pushes a window of capacity N holds exactly the most recent
\* min(k, N) pushed samples in insertion order, and never more than N.
C1_WindowHoldsMostRecent ==
    program = "manager" =>
        /\ Len(vol_window.data) <= volume_config.window_size
        /\ vol_window.data = LastK(fed, volume_config.window_size)
        /\ Len(price_window.data) <= price_config.window_size
        /\ price_window.data = LastK(fed, price_config.window_size)

\* C2: after any sequence of pushes, with or without evictions, sum is the
\* sum of the values in the window, sum_squared the sum of their squares,
\* and the variance derived from them is not negative.
C2_SumsMatchContents ==
    \A w \in {vol_window, price_window} :
        /\ w.sum = SumOf(Values(w.data))
        /\ w.sum_squared = SumSqOf(Values(w.data))
        /\ TimeSeriesWindow_std_dev(w).n >= 0
        /\ Len(w.data) >= 2 =>
              TimeSeriesWindow_std_dev(w)
                 = Frac(VarNumOf(Values(w.data)), Len(w.data) * Len(w.data))

\* A full window has evicted a non-zero sample and still holds non-zero ones.
C2_Witness ==
    /\ program = "manager"
    /\ vol_window.max_size >= 2
    /\ Len(fed) > Len(vol_window.data)
    /\ fed[1].value > 0
    /\ vol_window.sum > 0

\* C5: once the window holds min_samples samples, the volume detector fires
\* iff |z| >= z_threshold and |pct| >= min_pct_change, both taken over the
\* window that contains the current sample.
C5_VolumeFiresIff ==
    (program = "manager" /\ fed # << >>
       /\ Len(vol_window.data) >= volume_config.min_samples)
    => (IsSome(vol_result)
          <=> /\ ClaimZAbsGE(Values(vol_window.data), fed[Len(fed)].value,
                             volume_config.z_score_threshold)
              /\ ClaimVolumePctAbsGE(Values(vol_window.data),
                                     fed[Len(fed)].value,
                                     volume_config.min_percentage_change))

\* The volume detector has fired on a window of at least min_samples.
C5_Witness ==
    /\ program = "manager"
    /\ Len(vol_window.data) >= volume_config.min_samples
    /\ IsSome(vol_result)
    /\ Unwrap(vol_result).anomaly_type = "VolumeSpike"

\* C6: once the window holds min_samples samples, the price detector fires
\* iff |pct| >= pct_threshold or |z| >= z_threshold, pct being the change
\* against the sample fed immediately before, which last_price holds after
\* every call, the calls below min_samples included.
C6_PriceFiresIff ==
    (program = "manager" /\ fed # << >>)
    => /\ det_last_price = Some(fed[Len(fed)].value)
       /\ Len(price_window.data) >= price_config.min_samples
          => (IsSome(price_result)
                <=> \/ ClaimTickPctAbsGE(fed, price_config.percentage_threshold)
                    \/ ClaimZAbsGE(Values(price_window.data),
                                   fed[Len(fed)].value,
                                   price_config.z_score_threshold))

\* The price detector has fired on the tick-to-tick change alone, the
\* previous sample having been fed below min_samples.
C6_Witness ==
    /\ program = "manager"
    /\ Len(fed) = price_config.min_samples
    /\ Len(price_window.data) >= price_config.min_samples
    /\ IsSome(price_result)
    /\ Unwrap(price_result).anomaly_type = "PriceSpike"
    /\ ClaimTickPctAbsGE(fed, price_config.percentage_threshold)

\* C7: scenario S1.  The volumes [1]*30, 1, 20 at t = 0..31 s give exactly
\* one VolumeSpike, at t = 31 s, of severity at least Medium and with
\* z_score >= 3; no earlier sample fires.
C7_S1VolumeSpike ==
    program = "volume_detector" =>
        /\ Len(fed) < S1Len => emitted = << >>
        /\ (Len(fed) = S1Len /\ fed[S1Len].value = 20) =>
              /\ Len(emitted) = 1
              /\ emitted[1].anomaly_type = "VolumeSpike"
              /\ emitted[1].timestamp = 31000
              /\ SeverityRank(emitted[1].severity) >= SeverityRank("Medium")
              /\ ZAbsGE(emitted[1].z_score, 3)

\* Scenario S1 has run to its end and the detector has fired.
C7_Witness ==
    /\ program = "volume_detector"
    /\ Values(fed) = S1Volume(20)
    /\ Len(emitted) = 1

\* What scenario S2 yields but for the severity: exactly one PriceSpike, at
\* the 31st sample, with pct_change = 6; none of the first 30 fires.
S2Outcome(severity) ==
    program = "price_detector" =>
        /\ Len(fed) < S2Len => emitted = << >>
        /\ (Len(fed) = S2Len /\ fed[S2Len].value = 318) =>
              /\ Len(emitted) = 1
              /\ emitted[1].anomaly_type = "PriceSpike"
              /\ emitted[1].timestamp = 30000
              /\ emitted[1].severity = severity
              /\ emitted[1].percentage_change.n
                    = 6 * emitted[1].percentage_change.d

\* C8 as claimed: scenario S2 yields one PriceSpike of severity Medium.
C8_S2MediumOriginal == S2Outcome("Medium")

\* C8: scenario S2.  Thirty times 30000 and then 31800 give exactly one
\* PriceSpike, at the 31st sample, with pct_change 6.0 and severity
\* Critical (the z-score of the 31st sample is sqrt(30) >= 5).
C8_S2PriceSpike ==
    /\ S2Outcome("Critical")
    /\ (program = "price_detector" /\ Len(emitted) = 1
          /\ fed[S2Len].value = 318)
       => /\ ZAbsGE(emitted[1].z_score, 5)
          /\ ~ FracAbsGE(emitted[1].percentage_change, 7)

\* Scenario S2 has run to its end and the detector has fired.
C8_Witness ==
    /\ program = "price_detector"
    /\ Values(fed) = S2Price(318)
    /\ Len(emitted) = 1

\* C3: no detector emits on a call at which its window, the sample just
\* pushed included, holds fewer than min_samples samples: neither
\* VolumeAnomalyDetector::detect nor PriceAnomalyDetector::detect nor
\* SymbolMonitor::add_data_point.
C3_NoneBelowMinSamples ==
    /\ (program = "manager" /\ fed # << >>) =>
          /\ Len(vol_window.data) < volume_config.min_samples
                => vol_result = None
          /\ Len(price_window.data) < price_config.min_samples
                => price_result = None
    /\ (program = "monitor" /\ monitor.trade_count > 0) =>
          (Len(monitor.data_points) < mon_config.min_samples
              => mon_alert = None)

\* A volume detector was fed, below min_samples, a sample that differs from
\* the one before it and returned None.
C3_Witness ==
    /\ program = "manager"
    /\ Len(fed) = 2
    /\ Len(vol_window.data) = 2
    /\ volume_config.min_samples > 2
    /\ fed[1].value # fed[2].value
    /\ vol_result = None

\* The improved demo was fed a volume spike on its 21st trade, below
\* min_samples, and returned no alert.
C3_WitnessMonitor ==
    /\ program = "monitor"
    /\ Len(monitor.data_points) = 21
    /\ Len(monitor.data_points) < mon_config.min_samples
    /\ monitor.data_points[21].volume > MonBaseVolume
    /\ mon_alert = None

\* C4: between any two anomalies emitted for the same instrument, of any
\* kind and through any detection path, at least 2000 ms elapse.
C4_DebounceEveryPath ==
    /\ \A i, j \in DOMAIN emitted :
          i < j => emitted[j].timestamp - emitted[i].timestamp >= 2000
    /\ \A i, j \in DOMAIN mon_alert_times :
          i < j => mon_alert_times[j] - mon_alert_times[i] >= 2000

\* The largest and the smallest element of a non-empty sequence.
Highest(s) == CHOOSE x \in {s[i] : i \in DOMAIN s} :
                 \A i \in DOMAIN s : s[i] <= x
Lowest(s) == CHOOSE x \in {s[i] : i \in DOMAIN s} :
                \A i \in DOMAIN s : s[i] >= x

\* C9 as claimed: over the last 5 prices the flash-crash check fires iff
\* (hi - lo)/hi >= 10% and now <= 0.9*hi, both bounds inclusive, and never
\* below 5 prices.
C9_FlashCrashInclusive ==
    (program = "analyzer" /\ price_history # << >>)
    => LET p == LastK(price_history, 5)
           hi == Highest(p)
           lo == Lowest(p)
           newest == p[Len(p)]
       IN  IsSome(an_result.flash_crash)
              <=> /\ Len(price_history) >= 5
                  /\ (hi - lo) * 100 >= 10 * hi
                  /\ 10 * newest <= 9 * hi

\* C9: over the last 5 prices the flash-crash check fires iff
\* (hi - lo)/hi > 10% and now < 0.9*hi, both bounds exclusive, and never
\* below 5 prices.
C9_FlashCrashExclusive ==
    (program = "analyzer" /\ price_history # << >>)
    => LET p == LastK(price_history, 5)
           hi == Highest(p)
           lo == Lowest(p)
           newest == p[Len(p)]
       IN  IsSome(an_result.flash_crash)
              <=> /\ Len(price_history) >= 5
                  /\ (hi - lo) * 100 > 10 * hi
                  /\ 10 * newest < 9 * hi

\* The flash-crash check has fired.
C9_Witness ==
    /\ program = "analyzer"
    /\ Len(price_history) >= 5
    /\ IsSome(an_result.flash_crash)
    /\ Unwrap(an_result.flash_crash).severity = "Critical"

\* The position, counted from 0 at the oldest, of the maximum of p (the
\* oldest one when the maximum occurs more than once).
OldestPeak(p) ==
    (CHOOSE i \in DOMAIN p :
        /\ p[i] = Highest(p)
        /\ \A j \in 1..(i - 1) : p[j] # Highest(p)) - 1

\* pump = (p[i*] - p[0]) / p[0] * 100 and dump = (p[i*] - p[19]) / p[i*] * 100
\* of twenty prices p, oldest first.
PumpOf(p) == Frac((Highest(p) - p[1]) * 100, p[1])
DumpOf(p) == Frac((Highest(p) - p[Len(p)]) * 100, Highest(p))

\* Scenario S4 fires exactly once, on its twentieth price, with pump = 40
\* and dump = 21.4...
S4Outcome ==
    program = "analyzer_s4" =>
        /\ Len(price_history) < 20 => an_fired = 0
        /\ Len(price_history) = 20 =>
              /\ an_fired = 1
              /\ IsSome(an_result.pump_dump)
              /\ Unwrap(an_result.pump_dump).percentage_change.n
                   = 40 * Unwrap(an_result.pump_dump).percentage_change.d
              /\ 10 * Unwrap(an_result.pump_dump).dump_percentage.n
                   >= 214 * Unwrap(an_result.pump_dump).dump_percentage.d
              /\ 10 * Unwrap(an_result.pump_dump).dump_percentage.n
                   < 215 * Unwrap(an_result.pump_dump).dump_percentage.d

\* C10 as claimed: over the last 20 prices p[0..19], oldest first, with i*
\* the position of the maximum, the pump-and-dump check fires iff
\* 5 < i* < 15 and pump >= 20 and dump >= 15; scenario S4 fires once.
C10_PumpDumpOldestFirst ==
    /\ S4Outcome
    /\ (program \in {"analyzer_flat", "analyzer_s4"}
          /\ Len(price_history) >= 20)
       => LET p == LastK(price_history, 20)
          IN  IsSome(an_result.pump_dump)
                 <=> /\ 5 < OldestPeak(p) /\ OldestPeak(p) < 15
                     /\ PumpOf(p).n >= 20 * PumpOf(p).d
                     /\ DumpOf(p).n >= 15 * DumpOf(p).d

\* C10: over the last 20 prices p[0..19], oldest first, with i* the
\* position of the maximum (the oldest one on a tie), the pump-and-dump
\* check fires iff 4 < i* < 14 -- the code counts the position from the
\* newest price, where it is 19 - i*, and asks for 5 < 19 - i* < 15 -- and
\* pump > 20 and dump > 15; it never fires below 20 prices, and scenario S4
\* fires exactly once with pump = 40 and dump about 21.4.
C10_PumpDumpNewestFirst ==
    /\ S4Outcome
    /\ (program \in {"analyzer_flat", "analyzer_s4"}
          /\ price_history # << >>)
       => LET p == LastK(price_history, 20)
          IN  IsSome(an_result.pump_dump)
                 <=> /\ Len(price_history) >= 20
                     /\ 4 < OldestPeak(p) /\ OldestPeak(p) < 14
                     /\ PumpOf(p).n > 20 * PumpOf(p).d
                     /\ DumpOf(p).n > 15 * DumpOf(p).d

\* Scenario S4 has fired on its twentieth price.
C10_Witness ==
    /\ program = "analyzer_s4"
    /\ price_history = S4Prices
    /\ an_fired = 1
    /\ IsSome(an_result.pump_dump)

\* The check has fired on a run with a peak that occurs twice.
C10_WitnessTie ==
    /\ program = "analyzer_flat"
    /\ Len(price_history) >= 20
    /\ IsSome(an_result.pump_dump)
    /\ Cardinality({i \in DOMAIN LastK(price_history, 20) :
                      LastK(price_history, 20)[i]
                         = Highest(LastK(price_history, 20))}) = 2

\* C11: every anomaly of the flash-crash check has kind FlashCrash and
\* severity Critical, and every anomaly of the pump-and-dump check has kind
\* PumpDump and severity Critical.
C11_AnalyzerKinds ==
    /\ IsSome(an_result.flash_crash)
          => /\ Unwrap(an_result.flash_crash).anomaly_type = "FlashCrash"
             /\ Unwrap(an_result.flash_crash).severity = "Critical"
    /\ IsSome(an_result.pump_dump)
          => /\ Unwrap(an_result.pump_dump).anomaly_type = "PumpDump"
             /\ Unwrap(an_result.pump_dump).severity = "Critical"

\* The entries of the log for a map key, in order.
ObservedBy(key) == SelectSeq(observed, LAMBDA o : o.key = key)

\* The samples a key's detector must hold the tail of: those observed for
\* the key through any operation since the key was last reset.
RECURSIVE SinceReset(_)
SinceReset(log) ==
    IF log = << >> THEN << >>
    ELSE IF log[Len(log)].via = "reset" THEN << >>
    ELSE Append(SinceReset(SubSeq(log, 1, Len(log) - 1)), log[Len(log)])

\* C12: the volume detector's window only ever contains quantities of the
\* trades observed for its key, and the price detector's window only ever
\* contains their prices.
C12_VolumeGetsQuantity ==
    program = "app" =>
        \A key \in DOMAIN detectors :
            LET log == ObservedBy(key)
                d == detectors[key]
            IN  /\ \A i \in DOMAIN d.vol_window.data :
                      \E j \in DOMAIN log :
                          d.vol_window.data[i].value = log[j].volume
                /\ \A i \in DOMAIN d.price_window.data :
                      \E j \in DOMAIN log :
                          d.price_window.data[i].value = log[j].price

\* C13: two events whose instrument keys differ in any component are
\* observed by different monitors.
C13_KeyedByFullInstrument ==
    \A i, j \in DOMAIN observed :
        observed[i].instrument # observed[j].instrument
            => observed[i].key # observed[j].key

\* C14: a key observed once stays in the registry, and its one instance has
\* seen every observation made for the key through process_data or through
\* the detector get_or_create_detector returned: its price window holds the
\* most recent of the prices observed for the key since its last reset.
C14_SingleRegistryInstance ==
    program = "app" =>
        /\ \A i \in DOMAIN observed :
              observed[i].via # "reset" => observed[i].key \in DOMAIN detectors
        /\ \A key \in DOMAIN detectors :
              LET log == SinceReset(ObservedBy(key))
              IN  Values(detectors[key].price_window.data)
                     = LastK([i \in DOMAIN log |-> log[i].price],
                             price_config.window_size)

\* ------------------------------------------------------- specifications
\* The samples of a run that are finite, in order.
FiniteOnly(s) == SelectSeq(s, LAMBDA d : ~IsNaN(d.value))

\* The windows and last price after process_data on each sample of s in
\* turn, from freshly made detectors with the configuration of the run.
RECURSIVE Replayed(_)
Replayed(s) ==
    IF s = << >>
    THEN [vol |-> TimeSeriesWindow_new(volume_config.window_size),
          price |-> TimeSeriesWindow_new(price_config.window_size),
          last |-> None]
    ELSE LET r == Replayed(SubSeq(s, 1, Len(s) - 1))
             d == s[Len(s)]
             v == VolumeAnomalyDetector_detect(volume_config, r.vol, d)
             p == PriceAnomalyDetector_detect(price_config, r.price,
                                              r.last, d)
         IN  [vol |-> v.window, price |-> p.window, last |-> p.last_price]

\* C15: a sample with a non-finite value is rejected: the windows
\* (contents, sum, sum_squared) and last_price are what the finite samples
\* alone would have made them, and the call that was handed the non-finite
\* sample emits nothing.
C15_NonFiniteRejected ==
    program = "nonfinite" =>
        LET r == Replayed(FiniteOnly(fed))
        IN  /\ vol_window = r.vol
            /\ price_window = r.price
            /\ det_last_price = r.last
            /\ (fed # << >> /\ IsNaN(fed[Len(fed)].value))
                   => (vol_result = None /\ price_result = None)

\* C16: a zero denominator in an analyzer check gives a neutral statistic
\* and no anomaly: none from check_price_manipulation when the reference
\* price (the oldest of the last ten) is 0, none from check_flash_crash
\* when the maximum of the last five prices is 0.
C16_ZeroDenominatorNeutral ==
    program = "analyzer_zero" =>
        /\ (Len(price_history) >= 10
               /\ price_history[Len(price_history) - 9] = 0)
              => an_result.price_manipulation = None
        /\ (Len(price_history) >= 5
               /\ SeqMax(RevTake(price_history, 5)) = 0)
              => an_result.flash_crash = None

\* C17: per instrument, events are observed in arrival order: the trades
\* of the instrument update its statistics in the order in which the
\* stream yielded them.
C17_ArrivalOrder ==
    program = "test_all_exchanges" =>
        \A i, j \in 1..Len(stats.applied) :
            i < j => stats.applied[i] < stats.applied[j]

\* The same for the engine: the events of an exchange reach the bus in the
\* order in which its stream yielded them.
C17_EngineArrivalOrder ==
    program = "engine" =>
        \A i, j \in 1..Len(bus_log) :
            (i < j /\ bus_log[i].event.source = bus_log[j].event.source)
               => bus_log[i].event.seq < bus_log[j].event.seq

\* A queue depth below the number of events of a run: a sender on a
\* bounded queue of this depth is suspended before the last event.
QueueDepth == EngineMaxEvents - 1

\* C18: the number of events buffered between the stream tasks and the
\* producer never exceeds the depth of the queue.
C18_Backpressure ==
    program = "engine" => Len(event_queue) <= QueueDepth

\* C19: an event is reported as a publish failure only after 5 failed
\* attempts.
C19_FiveAttempts ==
    program = "engine" =>
        \A i \in 1..Len(bus_log) :
            bus_log[i].outcome = "send_failed" => bus_log[i].attempts = 5

\* C20: a bus error never disconnects upstream: whatever sends and
\* serializations have failed, the processing loop and every stream task
\* are running, every event the streams yielded is queued, in flight or
\* accounted for on the bus side, and the loop can take the next event.
C20_BusErrorKeepsUpstream ==
    program = "engine" =>
        /\ tasks.engine = "running"
        /\ \A e \in EngineExchanges : tasks.streams[e] = "running"
        /\ Len(event_queue) + Len(OptToSeq(in_flight)) + Len(bus_log)
              = SumOver(produced, EngineExchanges)
        /\ (event_queue # << >> /\ in_flight = None)
              => ENABLED EngineRecvStep

\* Reached: a failed send and a failed serialization, each followed by an
\* event that was published.
C20_Witness ==
    /\ program = "engine"
    /\ \E i, j, k \in 1..Len(bus_log) :
          /\ i < k /\ j < k
          /\ bus_log[i].outcome = "send_failed"
          /\ bus_log[j].outcome = "serialize_failed"
          /\ bus_log[k].outcome = "published"

\* The instrument fingerprint of an event of the engine runs, in which an
\* exchange has one instrument.
fingerprint(event) == << event.source >>

\* C21: every record is published with the fingerprint of its instrument
\* as key, and two published records of equal fingerprint are on the same
\* partition.
C21_PartitionKeyStable ==
    program = "engine" =>
        \A i, j \in 1..Len(bus_log) :
            (/\ bus_log[i].outcome = "published"
             /\ bus_log[j].outcome = "published"
             /\ fingerprint(bus_log[i].event) = fingerprint(bus_log[j].event))
               => /\ bus_log[i].key = fingerprint(bus_log[i].event)
                  /\ bus_log[i].partition = bus_log[j].partition

\* The second half alone: equal fingerprint, same partition.
C21_SamePartition ==
    program = "engine" =>
        \A i, j \in 1..Len(bus_log) :
            (/\ bus_log[i].outcome = "published"
             /\ bus_log[j].outcome = "published"
             /\ fingerprint(bus_log[i].event) = fingerprint(bus_log[j].event))
               => bus_log[i].partition = bus_log[j].partition

\* C22: the anomalies emitted for the instrument, in emission order, are
\* non-decreasing in timestamp.
C22_AnomalyTimestampsOrdered ==
    program = "manager" =>
        \A i, j \in 1..Len(emitted) :
            i < j => emitted[i].timestamp <= emitted[j].timestamp

\* C23: topic creation is idempotent.  start returns Err only when a
\* creation failed with an error other than "already exists" (or a
\* producer could not be made), such an error always makes it return Err,
\* and when it returns Ok there is a producer for each of the configured
\* topics and for nothing else, and every topic exists.
C23_TopicCreationIdempotent ==
    program = "engine_start" =>
        LET Topics == {EngineTopics[i] : i \in DOMAIN EngineTopics}
            errors == start_state.errors
            fatal(e) == e.at = "topic_producer" \/ e.err # ErrAlreadyExists
        IN  /\ start_state.result = Some("Err")
                  <=> \E i \in DOMAIN errors : fatal(errors[i])
            /\ start_state.result = Some("Ok")
                  => /\ DOMAIN producers = Topics
                     /\ \A t \in Topics : producers[t].topic = t
                     /\ Topics \subseteq cluster_topics

\* Reached: start returned Ok on a cluster on which some of the topics
\* existed and some did not.
C23_Witness ==
    /\ program = "engine_start"
    /\ start_state.result = Some("Ok")
    /\ start_state.errors # << >>
    /\ Len(start_state.errors) < Len(EngineTopics)

\* C24: cancellation is ordered: once stop has returned no stream task is
\* running, and every event handed to the pipeline before it has been
\* drained and published: nothing is left in the channel or in a send.
C24_OrderedCancellation ==
    (program = "engine_stop" /\ tasks.engine = "aborted") =>
        /\ \A e \in EngineExchanges : tasks.streams[e] # "running"
        /\ event_queue = << >>
        /\ in_flight = None

\* The second half alone: nothing accepted before stop is lost.
C24_NothingLost ==
    (program = "engine_stop" /\ tasks.engine = "aborted") =>
        /\ event_queue = << >>
        /\ in_flight = None

\* The Items and Reconnectings of a history, in order.
Yielded(log) == SelectSeq(log, LAMBDA k : k \in {"Item", "Reconnecting"})

\* C25: scenario S6.  A lost transport yields Reconnecting and, once the
\* reconnection completes, Items again; between a disconnect and the
\* completion of the reconnection exactly one Reconnecting is yielded; and
\* the loop keeps running across it: it is handed every Item and every
\* Reconnecting in the order yielded, hands every Item to process_trade,
\* leaves only on its timeout, and takes whatever is yielded next.
C25_ReconnectionKeepsLoop ==
    program = "demo_loop" =>
        LET log == supervisor.log
            reconnecting(i) == log[i] = "Reconnecting"
        IN  /\ \A i, j \in DOMAIN log :
                  (i < j /\ reconnecting(i) /\ reconnecting(j))
                     => \E k \in (i + 1)..(j - 1) : log[k] = "Reconnected"
            /\ \A i, j \in DOMAIN log :
                  (i < j /\ reconnecting(i) /\ log[j] = "Item")
                     => \E k \in (i + 1)..(j - 1) : log[k] = "Reconnected"
            /\ main_loop.state \in {"running", "timed_out"}
            /\ \E n \in 0..Len(Yielded(log)) :
                  /\ main_loop.consumed = SubSeq(Yielded(log), 1, n)
                  /\ main_loop.state = "running" =>
                        n + Len(SelectSeq(supervisor.pending,
                                   LAMBDA e : e.kind # "Err"))
                           = Len(Yielded(log))
            /\ Len(observed)
                  = Len(SelectSeq(main_loop.consumed, LAMBDA k : k = "Item"))
            /\ (main_loop.state = "running" /\ supervisor.pending # << >>)
                  => ENABLED LoopNextStep

\* Reached: the loop was handed an Item, then a Reconnecting, and after a
\* failed and a successful connection another Item, and is running.
C25_Witness ==
    /\ program = "demo_loop"
    /\ main_loop.state = "running"
    /\ main_loop.consumed = << "Item", "Reconnecting", "Item" >>
    /\ supervisor.log = << "Item", "Reconnecting", "ConnectFailed",
                           "Reconnected", "Item" >>
    /\ Len(observed) = 2

\* The handled errors that are protocol noise, and those that are not.
HandledNoise == SelectSeq(handled, LAMBDA e : e.noise)
HandledOther == SelectSeq(handled, LAMBDA e : ~ e.noise)

\* C26: every stream error is classified exactly once: protocol noise
\* increments only filtered_errors, any other error only error_count, so
\* that the two add up to the number of errors handled; and no error stops
\* the loop.
C26_NoiseCountedNotPropagated ==
    program = "demo_loop" =>
        /\ error_counters.filtered_errors = Len(HandledNoise)
        /\ error_counters.error_count = Len(HandledOther)
        /\ error_counters.filtered_errors + error_counters.error_count
              = Len(handled)
        /\ main_loop.state \in {"running", "timed_out"}

\* The parts of C26 that do not depend on the class of an error.
C26_CountedOnce ==
    program = "demo_loop" =>
        /\ error_counters.filtered_errors + error_counters.error_count
              = Len(handled)
        /\ main_loop.state \in {"running", "timed_out"}


\* C27: per-instrument memory is bounded by the window size: after any
\* sequence of observations data_points and price_changes of the monitor
\* of a symbol hold at most window_size entries.
C27_MemoryBounded ==
    (program = "monitor_demo" /\ mon_config.window_size > 0) =>
        /\ Len(monitor.data_points) <= mon_config.window_size
        /\ Len(monitor.price_changes) <= mon_config.window_size

\* The same for the improved demo, whose three collections are evicted.
C27_ImprovedBounded ==
    (program = "monitor" /\ mon_config.window_size > 0) =>
        /\ Len(monitor.data_points) <= mon_config.window_size
        /\ Len(monitor.volume_history) <= mon_config.window_size
        /\ Len(monitor.price_changes) <= mon_config.window_size

\* An observation that arrives less than 2 s after the last alert of the
\* monitor, and the point it brought.
Suppressed ==
    /\ program = "monitor"
    /\ IsSome(monitor.last_alert_time)
    /\ now' - Unwrap(monitor.last_alert_time) < 2000
ArrivedPoint == monitor'.data_points[Len(monitor'.data_points)]

\* C28 as claimed: a suppressed observation raises no alert and changes
\* last_price only.
C28_LastPriceOnly ==
    [][Suppressed =>
          /\ mon_alert' = None
          /\ monitor' = [monitor EXCEPT !.last_price = monitor'.last_price]
      ]_vars

\* C28: a suppressed observation raises no alert and leaves price_changes,
\* anomalies_detected, dynamic_volume_threshold and last_alert_time
\* unchanged; it sets last_price to its price, and it is counted and
\* recorded like any other: trade_count grows by one, total_volume by its
\* volume, and data_points and volume_history take it in, evicting their
\* oldest entry when full.
C28_SuppressedIsRecorded ==
    [][Suppressed =>
          /\ mon_alert' = None
          /\ mon_alert_times' = mon_alert_times
          /\ monitor' =
                [monitor EXCEPT
                   !.last_price = ArrivedPoint.price,
                   !.trade_count = @ + 1,
                   !.total_volume = @ + ArrivedPoint.volume,
                   !.data_points =
                       LastK(Append(@, ArrivedPoint), mon_config.window_size),
                   !.volume_history =
                       LastK(Append(@, ArrivedPoint.volume),
                             mon_config.window_size)]
      ]_vars

\* Reached: an alert on one trade and, 1 s later, a suppressed trade that
\* evicted the oldest point of a full window.
C28_Witness ==
    /\ program = "monitor"
    /\ IsSome(monitor.last_alert_time)
    /\ now - Unwrap(monitor.last_alert_time) = 1000
    /\ mon_alert = None
    /\ monitor.trade_count = Len(monitor.data_points) + 1
    /\ Len(monitor.data_points) = mon_config.window_size

\* An observation on which the price check runs: the window has
\* min_samples points, the observation is not suppressed, and there is a
\* previous price.
PriceChecked ==
    /\ program = "monitor"
    /\ Len(monitor'.data_points) >= mon_config.min_samples
    /\ ~ Suppressed
    /\ monitor.last_price > 0

\* x > mean(xs) + 2 * std(xs), with std^2 the mean of the squared
\* deviations from the mean: n*x - sum > 2 * sqrt(sum_i (n*x_i - sum)^2 / n).
ClaimAboveTwoSigma(x, xs) ==
    LET n == Len(xs)
        dev(y) == n * y - SumOf(xs)
    IN  /\ dev(x) > 0
        /\ n * dev(x) * dev(x)
              > 4 * SumSeq([i \in DOMAIN xs |-> dev(xs[i]) * dev(xs[i])])

\* x > p95(xs), the p95 being the element at index floor(0.95 * n) of the
\* sorted window: more than floor(0.95 * n) elements are below x.
ClaimAboveP95(x, xs) ==
    Cardinality({i \in DOMAIN xs : xs[i] < x}) > (95 * Len(xs)) \div 100

\* C29: on an observation on which the price check runs, |pct| is pushed
\* to the price-change window and a price anomaly is raised iff |pct|
\* exceeds max(mean + 2*std of the window, price_change_threshold) -- the
\* threshold alone when dynamic thresholds are disabled -- and exceeds the
\* p95 of the same window.
C29_PriceGates ==
    [][PriceChecked =>
          LET changes == monitor'.price_changes
              pct == changes[Len(changes)]
          IN  /\ changes = LastK(Append(monitor.price_changes, pct),
                                 mon_config.window_size)
              /\ pct * monitor.last_price
                    = Abs(monitor'.last_price - monitor.last_price) * 100
              /\ (IsSome(mon_alert') /\ Unwrap(mon_alert').price)
                    <=> /\ pct > mon_config.price_change_threshold
                        /\ mon_config.dynamic_threshold
                              => ClaimAboveTwoSigma(pct, changes)
                        /\ ClaimAboveP95(pct, changes)
      ]_vars

\* Reached: a price anomaly under dynamic thresholds.
C29_Witness ==
    /\ program = "monitor"
    /\ mon_config.dynamic_threshold
    /\ IsSome(mon_alert)
    /\ Unwrap(mon_alert).price

\* Reached: a price anomaly under the static threshold.
C29_WitnessStatic ==
    /\ program = "monitor"
    /\ ~ mon_config.dynamic_threshold
    /\ IsSome(mon_alert)
    /\ Unwrap(mon_alert).price

\* Reached: a change above mean + 2*std and above the p95 that the
\* configured threshold keeps from being an anomaly.
C29_WitnessFloor ==
    /\ program = "monitor"
    /\ mon_config.dynamic_threshold
    /\ monitor.trade_count > Len(monitor.data_points)
    /\ monitor.price_changes # << >>
    /\ LET pct == monitor.price_changes[Len(monitor.price_changes)]
       IN  /\ pct <= mon_config.price_change_threshold
           /\ ClaimAboveTwoSigma(pct, monitor.price_changes)
           /\ ClaimAboveP95(pct, monitor.price_changes)
    /\ mon_alert = None

\* The value of a dynamic_volume_threshold against an integer x.  A
\* multiplier that was never recomputed is its base; a recomputed one is
\* min(a, max) with a = base * (1.5 + min(std / mean, 2)) over the volumes
\* it was computed from, std / mean being sqrt(var_num) / sum, and
\* a = 3.5 * base on a mean of 0.  With c = 2x - 3*base, a >= x iff
\* min(std / mean, 2) >= c / (2 * base).
RatioGE(thr, x) ==
    LET c == 2 * x - 3 * thr.base
    IN  IF thr.sum = 0 THEN 7 * thr.base >= 2 * x
        ELSE /\ c <= 4 * thr.base
             /\ c <= 0 \/ 4 * thr.base * thr.base * thr.var_num
                             >= c * c * thr.sum * thr.sum
RatioLE(thr, x) ==
    LET c == 2 * x - 3 * thr.base
    IN  IF thr.sum = 0 THEN 7 * thr.base <= 2 * x
        ELSE \/ c >= 4 * thr.base
             \/ c >= 0 /\ 4 * thr.base * thr.base * thr.var_num
                             <= c * c * thr.sum * thr.sum
ThresholdGE(thr, x) ==
    IF ~ thr.dynamic THEN thr.base >= x
    ELSE thr.max >= x /\ RatioGE(thr, x)
ThresholdLE(thr, x) ==
    IF ~ thr.dynamic THEN thr.base <= x
    ELSE thr.max <= x \/ RatioLE(thr, x)

MonitorPrograms == {"monitor", "monitor_small"}

\* base <= dynamic_volume_threshold <= max, and a multiplier that was never
\* recomputed is the configured base.
VolumeMultiplierInRange ==
    program \in MonitorPrograms =>
        LET thr == monitor.dynamic_volume_threshold
        IN  /\ ThresholdGE(thr, mon_config.volume_anomaly_multiplier_base)
            /\ ThresholdLE(thr, mon_config.volume_anomaly_multiplier_max)
            /\ ~ thr.dynamic
                  => thr.base = mon_config.volume_anomaly_multiplier_base
            /\ monitor.trade_count = 0 => ~ thr.dynamic

\* An observation changes the multiplier only when dynamic thresholds are
\* enabled, min_samples is reached and the observation is not suppressed;
\* it is then recomputed from the volume window that holds the
\* observation, with the configured base and cap.
VolumeMultiplierRecomputed ==
    program \in MonitorPrograms =>
        IF /\ mon_config.dynamic_threshold
           /\ Len(monitor'.data_points) >= mon_config.min_samples
           /\ ~ (/\ IsSome(monitor.last_alert_time)
                 /\ now' - Unwrap(monitor.last_alert_time) < 2000)
        THEN monitor'.dynamic_volume_threshold
                = [dynamic |-> TRUE,
                   base |-> mon_config.volume_anomaly_multiplier_base,
                   max |-> mon_config.volume_anomaly_multiplier_max,
                   n |-> Len(monitor'.volume_history),
                   sum |-> SumOf(monitor'.volume_history),
                   var_num |-> VarNumOf(monitor'.volume_history)]
        ELSE monitor'.dynamic_volume_threshold
                = monitor.dynamic_volume_threshold

\* C30: with 0 < base <= max the multiplier satisfies
\* base <= dynamic_volume_threshold <= max in every reachable state: it
\* starts as base, is recomputed as min(base * (1.5 + min(std/mean, 2)), max)
\* -- which is the clamp to [base, max], the mean of 0 included -- on each
\* non-suppressed observation when dynamic thresholds are enabled, and is
\* never changed when they are disabled.
C30_VolumeMultiplierBounded ==
    [] VolumeMultiplierInRange /\ [][VolumeMultiplierRecomputed]_vars

\* Reached: a multiplier recomputed on a volume mean of 0, where
\* 3.5 * base is above the cap.
C30_Witness ==
    /\ program = "monitor_small"
    /\ monitor.dynamic_volume_threshold.dynamic
    /\ monitor.dynamic_volume_threshold.sum = 0
    /\ 7 * mon_config.volume_anomaly_multiplier_base
          > 2 * mon_config.volume_anomaly_multiplier_max

\* Reached: a multiplier strictly between 1.5 * base and the cap.
C30_WitnessInside ==
    /\ program \in MonitorPrograms
    /\ monitor.dynamic_volume_threshold.dynamic
    /\ monitor.dynamic_volume_threshold.var_num > 0
    /\ ~ ThresholdGE(monitor.dynamic_volume_threshold,
                     mon_config.volume_anomaly_multiplier_max)

\* The number of detectors that fire on the observation of a step of the
\* improved demo: none below min_samples or within 2 s of the last alert;
\* the price check as in C29; the volume check when the volume is above
\* mean * dynamic_volume_threshold and above 1.5 * p95 of the volume window
\* that holds it.
FiredImproved ==
    LET checked ==
            /\ Len(monitor'.data_points) >= mon_config.min_samples
            /\ ~ (/\ IsSome(monitor.last_alert_time)
                  /\ now' - Unwrap(monitor.last_alert_time) < 2000)
        changes == monitor'.price_changes
        pct == changes[Len(changes)]
        volumes == monitor'.volume_history
        volume == volumes[Len(volumes)]
        price_fires ==
            /\ checked
            /\ monitor.last_price > 0
            /\ pct > mon_config.price_change_threshold
            /\ mon_config.dynamic_threshold => ClaimAboveTwoSigma(pct, changes)
            /\ ClaimAboveP95(pct, changes)
        volume_fires ==
            /\ checked
            /\ AboveVolumeThreshold(
                   volume,
                   [n |-> Len(volumes), sum |-> SumOf(volumes),
                    var_num |-> VarNumOf(volumes)],
                   monitor'.dynamic_volume_threshold)
            /\ Cardinality({i \in DOMAIN volumes : 3 * volumes[i] < 2 * volume})
                  > (95 * Len(volumes)) \div 100
    IN  (IF price_fires THEN 1 ELSE 0) + (IF volume_fires THEN 1 ELSE 0)

\* The same for the first demo: the price check against the previous
\* price, the volume check against the mean of the last ten volumes.
FiredDemo ==
    LET point == monitor'.data_points[Len(monitor'.data_points)]
        ten == LastK(monitor.data_points, 10)
        price_fires ==
            /\ monitor.last_price > 0
            /\ Abs(point.price - monitor.last_price) * 100
                  > mon_config.price_change_threshold * monitor.last_price
        volume_fires ==
            /\ Len(monitor.data_points) >= 10
            /\ 10 * point.volume
                  > mon_config.volume_anomaly_multiplier
                       * SumSeq([i \in DOMAIN ten |-> ten[i].volume])
    IN  (IF price_fires THEN 1 ELSE 0) + (IF volume_fires THEN 1 ELSE 0)

\* One alert iff some check fires, and each check that fires is counted.
OneAlertCountsEach ==
    program \in {"monitor_burst", "monitor_demo"} =>
        LET k == IF program = "monitor_demo" THEN FiredDemo
                 ELSE FiredImproved
        IN  /\ IsSome(mon_alert') <=> k >= 1
            /\ monitor'.anomalies_detected = monitor.anomalies_detected + k

\* C31: an observation on which k of the price and volume checks fire
\* returns one alert when k >= 1 and none when k = 0, and adds exactly k
\* to anomalies_detected.
C31_OneAlertCountsEach == [][OneAlertCountsEach]_vars

\* Reached: both checks of the improved demo fired on one trade, which
\* gave one alert and counted two anomalies.
C31_Witness ==
    /\ program = "monitor_burst"
    /\ IsSome(mon_alert)
    /\ Unwrap(mon_alert).price /\ Unwrap(mon_alert).volume
    /\ monitor.anomalies_detected = 2
    /\ Len(mon_alert_times) = 1

\* Reached: both checks of the first demo fired on one trade.
C31_WitnessDemo ==
    /\ program = "monitor_demo"
    /\ mon_alert = Some(<< "price", "volume" >>)
    /\ monitor.anomalies_detected >= 2

\* The sorted copy of a sequence, by insertion.
RECURSIVE SortedCopy(_)
SortedCopy(xs) ==
    IF xs = << >> THEN << >>
    ELSE LET x == xs[Len(xs)]
             rest == SortedCopy(SubSeq(xs, 1, Len(xs) - 1))
             below == SelectSeq(rest, LAMBDA y : y <= x)
             above == SelectSeq(rest, LAMBDA y : y > x)
         IN  below \o << x >> \o above

C32_WitnessEmpty ==
    /\ program = "statistics"
    /\ stat_input = << >>
    /\ stat_result = None

\* The detectors of a key as constructed, with the configuration of the
\* run, then fed the samples of s in turn: the windows, last_price, and
\* what the last call returned.
RECURSIVE FreshRun(_)
FreshRun(s) ==
    IF s = << >>
    THEN [vol |-> TimeSeriesWindow_new(volume_config.window_size),
          price |-> TimeSeriesWindow_new(price_config.window_size),
          last |-> None, vol_result |-> None, price_result |-> None]
    ELSE LET r == FreshRun(SubSeq(s, 1, Len(s) - 1))
             d == s[Len(s)]
             v == VolumeAnomalyDetector_detect(volume_config, r.vol, d)
             p == PriceAnomalyDetector_detect(price_config, r.price,
                                              r.last, d)
         IN  [vol |-> v.window, price |-> p.window, last |-> p.last_price,
              vol_result |-> v.result, price_result |-> p.result]

\* The samples fed since reset was last called.
SinceLastReset == SubSeq(fed, reset_at + 1, Len(fed))

\* C33: after reset() a detector is observationally equivalent to a fresh
\* one with the same config: on every sample fed since the reset it holds
\* what a fresh detector fed the same samples holds and has returned what
\* that one returns -- None until min_samples samples have arrived since
\* the reset, and no price change for the first of them.
C33_ResetIsFresh ==
    program = "reset" =>
        LET s == SinceLastReset
            r == FreshRun(s)
        IN  /\ vol_window = r.vol
            /\ price_window = r.price
            /\ det_last_price = r.last
            /\ s # << >> =>
                  /\ vol_result = r.vol_result
                  /\ price_result = r.price_result
                  /\ Len(s) < volume_config.min_samples => vol_result = None
                  /\ Len(s) < price_config.min_samples => price_result = None
            /\ (s = << >> /\ reset_at > 0) => det_last_price = None

\* Reached: a detector that fired, was reset, and fired again once
\* min_samples new samples had arrived.
C33_Witness ==
    /\ program = "reset"
    /\ reset_at > 0
    /\ \E i \in 1..Len(emitted) : emitted[i].timestamp < reset_at * 1000
    /\ Len(SinceLastReset) >= price_config.min_samples
    /\ IsSome(price_result)

\* C34: two monitors fed the same sequence of observations emit the same
\* alerts at the same positions, whatever the clocks of their processes
\* read: after every trade either both returned the same alert or neither
\* returned one.
C34_SameObservationsSameAlerts ==
    program = "monitor_twin" => mon_alert = twin.alert

\* C35: update_positions always terminates: when the price triggers the
\* stop-loss or the take-profit the position is closed and the call
\* returns, without blocking on the map entry it holds while close_position
\* runs -- the update task is never waiting for a lock that it holds.
C35_UpdateNeverBlocksOnOwnEntry ==
    program = "trader" => trader.update # "blocked"

\* A step after which the map no longer holds the position it held.
PositionLeft ==
    /\ IsSome(trader.positions)
    /\ \/ ~IsSome(trader'.positions)
       \/ Unwrap(trader'.positions).id # Unwrap(trader.positions).id

PositionLeavesOnlyClosed ==
    (program = "trader" /\ PositionLeft)
        => Unwrap(trader.positions).id \in trader'.closed

\* C36: an open position leaves the positions map only when a closing
\* order for it has been executed; in particular opening a position for a
\* key that holds one does not overwrite it.
C36_PositionLeavesOnlyClosed == [][PositionLeavesOnlyClosed]_vars

\* C37: after handle_socket has finished for a client, neither
\* websocket_clients nor subscriptions holds the client's id, whatever
\* the receive task was doing when the cleanup ran.
C37_NoEntryAfterDisconnect ==
    (program = "websocket" /\ ws.handler = "finished") =>
        (~ws.state.websocket_clients /\ ~IsSome(ws.state.subscriptions))

\* After handle_socket has finished websocket_clients does not hold the
\* client's sender, and no broadcast queues a message for the client.
C37_NoSenderAfterDisconnect ==
    (program = "websocket" /\ ws.handler = "finished") =>
        ~ws.state.websocket_clients

\* C38: every channel passed to add_channel is in the list seen by a
\* send_all call that starts after add_channel has returned, and the list
\* keeps the channels in the order they were added.
C38_AddedChannelsSeenInOrder ==
    (program = "notifier" /\ IsSome(notifier.seen)) =>
        Unwrap(notifier.seen).list = Unwrap(notifier.seen).added

\* The list only ever holds channels that were added, each once.
C38_ListedWereAdded ==
    program = "notifier" =>
        /\ \A i \in DOMAIN notifier.channels :
              \E j \in DOMAIN notifier.added :
                  notifier.added[j] = notifier.channels[i]
        /\ \A i, j \in DOMAIN notifier.channels :
              notifier.channels[i] = notifier.channels[j] => i = j

\* The lock a task is waiting for, if it is at a lock().await.
Wanted(task) ==
    LET at == msys.pc[task]
    IN  IF task = "trade" /\ at \in {"monitors", "total_events"}
        THEN Some(at)
        ELSE IF task = "report" /\ at # "idle" THEN Some(at)
        ELSE None

Position(l) == CHOOSE i \in DOMAIN SystemLocks : SystemLocks[i] = l

SystemTasks == {"trade", "error", "report"}

SumTradeCount(counts) == SumOver(counts, DOMAIN counts)

\* A task at a lock().await of a mutex that another task holds.
Blocked(task) == IsSome(Wanted(task)) /\ ~Free(Unwrap(Wanted(task)))

\* C39: under any interleaving of process_trade, handle_error and
\* generate_report no deadlock occurs -- a task waiting at a lock holds
\* only locks that precede it in the order monitors, total_events,
\* error_count, filtered_errors, and whenever a task is blocked some task
\* inside a call can take its next step -- and every report observes
\* total_events equal to the sum of trade_count over the monitors.
C39_NoDeadlockReportsConsistent ==
    program = "system" =>
        /\ \A task \in SystemTasks : \A l \in DOMAIN msys.locks :
              (msys.locks[l] = Some(task) /\ IsSome(Wanted(task)))
                  => Position(l) < Position(Unwrap(Wanted(task)))
        /\ (\E task \in SystemTasks : Blocked(task))
              => \E other \in SystemTasks :
                    msys.pc[other] # "idle" /\ ~Blocked(other)
        /\ \A i \in DOMAIN msys.reports :
              msys.reports[i].total_events
                  = SumTradeCount(msys.reports[i].monitors)
        /\ (msys.pc.report # "idle" /\ IsSome(msys.read))
              => Unwrap(msys.read) = SumTradeCount(msys.monitors)

\* Reached: a report of a positive total printed while the trade task
\* waits for the monitors lock that the report task holds.
C39_Witness ==
    /\ program = "system"
    /\ msys.pc.trade = "monitors"
    /\ msys.locks.monitors = Some("report")
    /\ msys.pc.report = "filtered_errors"
    /\ msys.pc.error \in {"filtered", "errors"}
    /\ IsSome(msys.read) /\ Unwrap(msys.read) > 0

\* On an observation on which the price check runs: the change exceeds
\* the dynamic price threshold and is strictly larger than every earlier
\* change of the window.
LargestChange ==
    LET changes == monitor'.price_changes
        pct == changes[Len(changes)]
    IN  /\ pct > mon_config.price_change_threshold
        /\ mon_config.dynamic_threshold => ClaimAboveTwoSigma(pct, changes)
        /\ \A i \in 1..(Len(changes) - 1) : changes[i] < pct

PriceAlertRaised == IsSome(mon_alert') /\ Unwrap(mon_alert').price

LargestChangeAlerts == (PriceChecked /\ LargestChange) => PriceAlertRaised

\* C40: a price change that exceeds the dynamic price threshold and is
\* strictly larger than every earlier change in the window raises a price
\* alert on that observation, when it is not debounced and min_samples is
\* reached, however many changes the window holds.
C40_LargestChangeAlerts == [][LargestChangeAlerts]_vars

LargestChangeAlertsFrom21 ==
    (PriceChecked /\ LargestChange /\ Len(monitor'.price_changes) > 20)
        => PriceAlertRaised

\* The same once the window holds more than 20 changes, where the element
\* at index floor(0.95 * n) is no longer the largest one.
C40_LargestChangeAlertsFrom21 == [][LargestChangeAlertsFrom21]_vars

Init == InitManager \/ InitMonitor

Next == ManagerStep \/ MonitorStep

\* The generic runs of the detector manager and of the improved demo.
Spec == Init /\ [][Next]_vars

\* The generic runs of the detector manager alone.
SpecManager == InitManager /\ [][ManagerStep]_vars

\* The runs of the improved demo alone.
SpecMonitor == InitMonitor /\ [][MonitorStep]_vars

\* The analyzer on free prices.
SpecFlash == InitFlash /\ [][AnalyzerStep]_vars

NextPump == AnalyzerFlatStep \/ AnalyzerS4Step

\* The analyzer on twenty and more prices.
SpecPump == InitPump /\ [][NextPump]_vars

InitScenario == InitS1 \/ InitS2

NextScenario == VolumeDetectorStep \/ PriceDetectorStep

\* The scripted runs with the default configurations.
SpecScenario == InitScenario /\ [][NextScenario]_vars

NextApp == AppEventStep \/ AppGetStep \/ AppHandleStep \/ AppResetStep

SpecApp == InitApp /\ [][NextApp]_vars

SpecDemoRegistry == InitDemoRegistry /\ [][DemoRegistryStep]_vars

NextEngineStop ==
    EngineStreamStep \/ EngineRecvStep \/ EngineSendStep \/ EngineStopStep

SpecEngineStop == InitEngineStop /\ [][NextEngineStop]_vars

NextStart == StartTopicStep \/ StartRestStep

SpecStart == InitStart /\ [][NextStart]_vars

NextEngine == EngineStreamStep \/ EngineRecvStep \/ EngineSendStep

SpecEngine == InitEngine /\ [][NextEngine]_vars

NextTest == TestSpawnStep \/ TestProcessStep

SpecTest == InitTest /\ [][NextTest]_vars

SpecZero == InitZero /\ [][AnalyzerZeroStep]_vars

SpecNonFinite == InitNonFinite /\ [][NonFiniteStep]_vars
=========================================================================
